---- MODULE Spec2Model ----
(***************************************************************************)
(* Model of the checkmate hooks.  Post-tool hook (scripts/lib/lib.mjs):    *)
(* the environment resolver (getChecksForFile), the check executor         *)
(* (runCheck) and the main routine (run).  Post-task hook (post-task.mjs): *)
(* the task rule matcher (findMatchingTask), the placeholder substitution  *)
(* (applySubstitutions) and its main routine.                              *)
(*                                                                         *)
(* Text (paths, glob patterns, extension keys, tool output) is a sequence  *)
(* of one-character strings, so that prefix tests, splitting and pattern   *)
(* matching are computed rather than assumed.                              *)
(***************************************************************************)
EXTENDS Integers, Sequences, FiniteSets, TLC

VARIABLES
    pc,            \* position of the routine under study
    config,        \* parsed .claude/checkmate.json
    filePath,      \* tool_input.file_path of the event
    checkResult,   \* value returned by getChecksForFile
    check,         \* the check handed to runCheck
    tool,          \* behaviour of the external command: exists, status, stdout, stderr
    spawned,       \* argument lists handed to spawnSync, in order
    parserCalls,   \* texts handed to a parser, in order
    checkDiagnostics, \* value returned by runCheck
    world,         \* what run() finds outside: file system, environment, git state
    idx,           \* index of the next check in run()'s loop
    results,       \* run()'s results array of {name, passed}
    diagnostics,   \* run()'s aggregated diagnostics array
    hasFailures,   \* run()'s hasFailures flag
    hostOutput,    \* objects written to stdout by pass()/block(), in order
    input,         \* the event the post-task hook reads (tool_name, subagent_type)
    match,         \* value returned by findMatchingTask
    excludePattern, \* the exclude pattern handed to matchesExcludePattern
    excluded,      \* value returned by matchesExcludePattern
    validation     \* outcome of validateConfig: its return value or the exception

vars == <<pc, config, filePath, checkResult, check, tool, spawned, parserCalls,
          checkDiagnostics, world, idx, results, diagnostics, hasFailures,
          hostOutput, input, match, excludePattern, excluded, validation>>

\* ---------------------------------------------------------------------
\* Optional values (JavaScript undefined versus a present value)
\* ---------------------------------------------------------------------
None == <<>>
Some(x) == <<x>>

\* ---------------------------------------------------------------------
\* Bounds of the model
\* ---------------------------------------------------------------------
MaxEnvs == 2

\* ---------------------------------------------------------------------
\* String helpers (String.prototype / node:path)
\* ---------------------------------------------------------------------
StartsWith(s, p) == Len(p) <= Len(s) /\ SubSeq(s, 1, Len(p)) = p

EndsWith(s, p) == Len(p) <= Len(s) /\ SubSeq(s, Len(s) - Len(p) + 1, Len(s)) = p

Max(S) == CHOOSE x \in S : \A y \in S : y <= x

Min(S) == CHOOSE x \in S : \A y \in S : x <= y

\* index of the last occurrence of character c in s, 0 when there is none
LastIndexOf(s, c) == Max({0} \cup {i \in 1..Len(s) : s[i] = c})

\* index of the first occurrence of character c in s, 0 when there is none
IndexOf(s, c) ==
    IF \E i \in 1..Len(s) : s[i] = c
    THEN Min({i \in 1..Len(s) : s[i] = c})
    ELSE 0

\* path.basename
Basename(p) == SubSeq(p, LastIndexOf(p, "/") + 1, Len(p))

\* path.dirname of a relative path
Dirname(p) ==
    LET k == LastIndexOf(p, "/")
    IN IF k = 0 THEN <<".">>
       ELSE IF k = 1 THEN <<"/">>
       ELSE SubSeq(p, 1, k - 1)

\* path.extname: from the last "." of the base name, "" when there is no
\* dot or the only dot is the first character of the base name
Extname(p) ==
    LET b == Basename(p)
        k == LastIndexOf(b, ".")
    IN IF k <= 1 THEN <<>> ELSE SubSeq(b, k, Len(b))

\* path.relative(projectRoot, filePath) for a project root one level below "/"
Relative(root, file) ==
    IF file = root THEN <<>>
    ELSE IF StartsWith(file, root \o <<"/">>)
         THEN SubSeq(file, Len(root) + 2, Len(file))
         ELSE <<".", ".">> \o file

\* String.prototype.split on a one-character separator
RECURSIVE Split(_, _)
Split(s, sep) ==
    LET k == IndexOf(s, sep)
    IN IF k = 0 THEN <<s>>
       ELSE <<SubSeq(s, 1, k - 1)>> \o Split(SubSeq(s, k + 1, Len(s)), sep)

\* Array.prototype.join with a one-character separator
RECURSIVE Join(_, _)
Join(parts, sep) ==
    IF parts = <<>> THEN <<>>
    ELSE IF Len(parts) = 1 THEN parts[1]
    ELSE parts[1] \o <<sep>> \o Join(Tail(parts), sep)

IsSpace(c) == c \in {" ", "\n"}

\* String.prototype.trim
RECURSIVE TrimStart(_)
TrimStart(s) == IF s # <<>> /\ IsSpace(s[1]) THEN TrimStart(Tail(s)) ELSE s

RECURSIVE TrimEnd(_)
TrimEnd(s) ==
    IF s # <<>> /\ IsSpace(s[Len(s)]) THEN TrimEnd(SubSeq(s, 1, Len(s) - 1)) ELSE s

Trim(s) == TrimEnd(TrimStart(s))

\* String.prototype.includes
Includes(s, sub) ==
    \E i \in 0..(Len(s) - Len(sub)) : SubSeq(s, i + 1, i + Len(sub)) = sub

\* Array.prototype.slice(0, n) for n >= 0
Slice0(seq, n) == SubSeq(seq, 1, IF n < Len(seq) THEN n ELSE Len(seq))

\* ---------------------------------------------------------------------
\* Pattern matcher
\* ---------------------------------------------------------------------
\* one pass of String.prototype.replace(/x/g, y) over a token sequence:
\* every non-overlapping occurrence of from (left to right) becomes <<to>>
RECURSIVE ReplaceAll(_, _, _)
ReplaceAll(s, from, to) ==
    IF s = <<>> THEN <<>>
    ELSE IF StartsWith(s, from)
         THEN <<to>> \o ReplaceAll(SubSeq(s, Len(from) + 1, Len(s)), from, to)
         ELSE <<s[1]>> \o ReplaceAll(Tail(s), from, to)

\* the regex source built by matchesExcludePattern, as a token sequence
\* mutant of GlobToRegex: a globstar followed by a slash also stands for
\* no directory at all
GlobToRegexOptionalDir(pattern) ==
    LET p0 == ReplaceAll(pattern, <<"*", "*", "/">>, ".*")
        p1 == ReplaceAll(p0, <<"*", "*">>, "{{GLOBSTAR}}")
        p2 == ReplaceAll(p1, <<"*">>, "[^/]*")
        p3 == ReplaceAll(p2, <<"{{GLOBSTAR}}">>, ".*")
        p4 == ReplaceAll(p3, <<"/">>, "\\/")
    IN p4

GlobToRegex(pattern) ==
    LET p1 == ReplaceAll(pattern, <<"*", "*">>, "{{GLOBSTAR}}")
        p2 == ReplaceAll(p1, <<"*">>, "[^/]*")
        p3 == ReplaceAll(p2, <<"{{GLOBSTAR}}">>, ".*")
        p4 == ReplaceAll(p3, <<"/">>, "\\/")
    IN p4

\* RegExp semantics of the tokens GlobToRegex can produce; the regex is
\* anchored at both ends, so the whole of s must be consumed
RECURSIVE RegexMatch(_, _)
RegexMatch(re, s) ==
    IF re = <<>> THEN s = <<>>
    ELSE LET t == re[1]
             rest == Tail(re)
         IN CASE t = ".*" ->
                   \E k \in 0..Len(s) : RegexMatch(rest, SubSeq(s, k + 1, Len(s)))
              [] t = "[^/]*" ->
                   \E k \in 0..Len(s) :
                       /\ \A i \in 1..k : s[i] # "/"
                       /\ RegexMatch(rest, SubSeq(s, k + 1, Len(s)))
              [] t = "." ->
                   s # <<>> /\ RegexMatch(rest, Tail(s))
              [] t = "\\/" ->
                   s # <<>> /\ s[1] = "/" /\ RegexMatch(rest, Tail(s))
              [] OTHER ->
                   s # <<>> /\ s[1] = t /\ RegexMatch(rest, Tail(s))

matchesExcludePattern(relativePath, pattern) ==
    RegexMatch(GlobToRegex(pattern), relativePath)

\* mutant of fileMatchesPaths: the path "." is not normalised to ""
fileMatchesPathsNoDot(relativePath, paths) ==
    LET fileDir == Dirname(relativePath)
    IN \E i \in 1..Len(paths) :
          LET envPath == paths[i]
          IN \/ envPath = <<>>
             \/ StartsWith(relativePath, envPath \o <<"/">>)
             \/ relativePath = envPath
             \/ fileDir = envPath
             \/ StartsWith(fileDir, envPath \o <<"/">>)

fileMatchesPaths(relativePath, paths) ==
    LET fileDir == Dirname(relativePath)
    IN \E i \in 1..Len(paths) :
          LET envPath == paths[i]
              normalizedEnvPath == IF envPath = <<".">> THEN <<>> ELSE envPath
          IN \/ normalizedEnvPath = <<>>
             \/ StartsWith(relativePath, normalizedEnvPath \o <<"/">>)
             \/ relativePath = normalizedEnvPath
             \/ fileDir = normalizedEnvPath
             \/ StartsWith(fileDir, normalizedEnvPath \o <<"/">>)

\* ---------------------------------------------------------------------
\* Environment resolver
\* ---------------------------------------------------------------------
\* checksConfig: None or Some(sequence of [key, checks]) in key order
getChecksForExtension(checksConfig, ext) ==
    IF checksConfig = None THEN <<>>
    ELSE LET entries == checksConfig[1]
             exact == {i \in 1..Len(entries) : entries[i].key = ext}
             listed == {i \in 1..Len(entries) :
                          \E j \in 1..Len(Split(entries[i].key, ",")) :
                              Trim(Split(entries[i].key, ",")[j]) = ext}
         IN IF exact # {} THEN entries[Min(exact)].checks
            ELSE IF listed # {} THEN entries[Min(listed)].checks
            ELSE <<>>

\* mutant of FindMatchedPattern: reports the first listed pattern whenever
\* some pattern matches
FindMatchedPatternFirstListed(exclude, relativePath) ==
    IF \E i \in 1..Len(exclude) : matchesExcludePattern(relativePath, exclude[i])
    THEN Some(exclude[1])
    ELSE None

\* env.exclude.find(pattern => matchesExcludePattern(relativePath, pattern))
FindMatchedPattern(exclude, relativePath) ==
    LET hits == {i \in 1..Len(exclude) : matchesExcludePattern(relativePath, exclude[i])}
    IN IF hits = {} THEN None ELSE Some(exclude[Min(hits)])

\* mutant of EnvStep: an excluded path always moves on to the next
\* environment, whether or not the environment has checks for the extension
EnvStepExcludeContinues(env, relativePath, ext) ==
    LET matched == IF env.exclude = None THEN None
                   ELSE FindMatchedPattern(env.exclude[1], relativePath)
        checks == getChecksForExtension(env.checks, ext)
    IN IF env.paths = None THEN [checks |-> <<>>, reason |-> "continue"]
       ELSE IF ~fileMatchesPaths(relativePath, env.paths[1])
            THEN [checks |-> <<>>, reason |-> "continue"]
       ELSE IF matched # None /\ matched[1] # <<>>
            THEN [checks |-> <<>>, reason |-> "continue"]
       ELSE IF Len(checks) > 0
            THEN [checks |-> checks, reason |-> "ok"]
            ELSE [checks |-> <<>>, reason |-> "no-checks-for-extension"]

\* mutant of EnvStep: an excluded path always stops the scan
EnvStepExcludeStops(env, relativePath, ext) ==
    LET matched == IF env.exclude = None THEN None
                   ELSE FindMatchedPattern(env.exclude[1], relativePath)
        checks == getChecksForExtension(env.checks, ext)
    IN IF env.paths = None THEN [checks |-> <<>>, reason |-> "continue"]
       ELSE IF ~fileMatchesPaths(relativePath, env.paths[1])
            THEN [checks |-> <<>>, reason |-> "continue"]
       ELSE IF matched # None /\ matched[1] # <<>>
            THEN [checks |-> <<>>, reason |-> "path-excluded",
                  pattern |-> matched[1], env |-> env.name]
       ELSE IF Len(checks) > 0
            THEN [checks |-> checks, reason |-> "ok"]
            ELSE [checks |-> <<>>, reason |-> "no-checks-for-extension"]

\* mutant of EnvStep: a covering environment without checks for the
\* extension lets the scan fall through to the next environment
EnvStepNoChecksContinues(env, relativePath, ext) ==
    LET matched == IF env.exclude = None THEN None
                   ELSE FindMatchedPattern(env.exclude[1], relativePath)
        checks == getChecksForExtension(env.checks, ext)
    IN IF env.paths = None THEN [checks |-> <<>>, reason |-> "continue"]
       ELSE IF ~fileMatchesPaths(relativePath, env.paths[1])
            THEN [checks |-> <<>>, reason |-> "continue"]
       ELSE IF matched # None /\ matched[1] # <<>>
            THEN IF Len(checks) > 0
                 THEN [checks |-> <<>>, reason |-> "path-excluded",
                       pattern |-> matched[1], env |-> env.name]
                 ELSE [checks |-> <<>>, reason |-> "continue"]
       ELSE IF Len(checks) > 0
            THEN [checks |-> checks, reason |-> "ok"]
            ELSE [checks |-> <<>>, reason |-> "continue"]

\* one iteration of the for loop of getChecksForFile: the value returned
\* from inside the loop, or reason "continue" when the loop moves on
EnvStep(env, relativePath, ext) ==
    LET matched == IF env.exclude = None THEN None
                   ELSE FindMatchedPattern(env.exclude[1], relativePath)
        checks == getChecksForExtension(env.checks, ext)
    IN IF env.paths = None THEN [checks |-> <<>>, reason |-> "continue"]
       ELSE IF ~fileMatchesPaths(relativePath, env.paths[1])
            THEN [checks |-> <<>>, reason |-> "continue"]
       ELSE IF matched # None /\ matched[1] # <<>>
            THEN IF Len(checks) > 0
                 THEN [checks |-> <<>>, reason |-> "path-excluded",
                       pattern |-> matched[1], env |-> env.name]
                 ELSE [checks |-> <<>>, reason |-> "continue"]
       ELSE IF Len(checks) > 0
            THEN [checks |-> checks, reason |-> "ok"]
            ELSE [checks |-> <<>>, reason |-> "no-checks-for-extension"]

\* the for loop of getChecksForFile from environment i on
RECURSIVE ScanEnvironments(_, _, _, _)
ScanEnvironments(envs, i, relativePath, ext) ==
    IF i > Len(envs) THEN [checks |-> <<>>, reason |-> "no-matching-environment"]
    ELSE LET r == EnvStep(envs[i], relativePath, ext)
         IN IF r.reason = "continue"
            THEN ScanEnvironments(envs, i + 1, relativePath, ext)
            ELSE r

getChecksForFile(cfg, file, projectRoot) ==
    IF cfg.environments = None
    THEN [checks |-> <<>>, reason |-> "no-config"]
    ELSE ScanEnvironments(cfg.environments[1], 1,
                          Relative(projectRoot, file), Extname(file))

\* ---------------------------------------------------------------------
\* Helpers of the check executor
\* ---------------------------------------------------------------------
\* commandExists: `command -v cmd` succeeds; the answer is the machine's
commandExists(cmd, t) == t.exists

\* runCommand: spawnSync and the {success, stderr, stdout} it returns
runCommandAlwaysFails(cmd, args, t) ==
    [success |-> FALSE, stderr |-> t.stderr, stdout |-> t.stdout]

runCommand(cmd, args, t) ==
    [success |-> t.status = 0, stderr |-> t.stderr, stdout |-> t.stdout]

\* mutant of truncateOutput: keeps one line too many
truncateOutputOneMore(output, lines) ==
    Join(Slice0(Split(output, "\n"), lines + 1), "\n")

truncateOutput(output, lines) ==
    Join(Slice0(Split(output, "\n"), lines), "\n")

\* ---------------------------------------------------------------------
\* Output parsers.  A line of tool output is a sequence of tokens: the
\* punctuation the patterns look for, one-digit numbers, a rule code, and
\* words.
\* ---------------------------------------------------------------------
Digits == <<"1", "2", "3", "4", "5", "6", "7", "8", "9">>

IsDigit(t) == \E n \in 1..Len(Digits) : Digits[n] = t

\* parseInt(text, 10) of a one-digit number
ParseInt(t) == CHOOSE n \in 1..Len(Digits) : Digits[n] = t

\* [A-Z]+\d+
IsRuleCode(t) == t \in {"E1", "W2"}

\* positions in line where /:(\d+):(\d+): ([A-Z]+\d+) (.+)$/ can start
RuffMatches(line) ==
    {i \in 1..Len(line) :
        /\ i + 8 <= Len(line)
        /\ line[i] = ":" /\ IsDigit(line[i + 1])
        /\ line[i + 2] = ":" /\ IsDigit(line[i + 3])
        /\ line[i + 4] = ":" /\ line[i + 5] = " "
        /\ IsRuleCode(line[i + 6]) /\ line[i + 7] = " "}

RECURSIVE RuffLines(_)
RuffLines(lines) ==
    IF lines = <<>> THEN <<>>
    ELSE LET line == Head(lines)
             m == RuffMatches(line)
         IN (IF Trim(line) # <<>> /\ m # {}
             THEN LET i == Min(m)
                  IN << [line |-> ParseInt(line[i + 1]),
                         column |-> ParseInt(line[i + 3]),
                         rule |-> line[i + 6],
                         message |-> SubSeq(line, i + 8, Len(line)),
                         severity |-> "error"] >>
             ELSE <<>>) \o RuffLines(Tail(lines))

ParseRuff(output) == RuffLines(Split(output, "\n"))

ParsePrettier(output) ==
    IF Includes(output, <<"would be reformatted">>) \/ Trim(output) # <<>>
    THEN << [message |-> <<"File needs formatting">>, severity |-> "error"] >>
    ELSE <<>>

GenericLines == 5

ParseGeneric(output) ==
    LET trimmed == Trim(output)
    IN IF trimmed # <<>>
       THEN << [message |-> truncateOutput(trimmed, GenericLines), severity |-> "error"] >>
       ELSE <<>>

\* names of the entries of the parsers object that are modelled
\* ---------------------------------------------------------------------
\* parsers.ty: a header line "error[rule]: message" is remembered, and the
\* next location line "  --> file:line:column" is reported with it
\* ---------------------------------------------------------------------
\* mutant of TyStep: a reported header stays pending
TyStepKeepPending(cur, line) ==
    LET close == {k \in 3..Len(line) : line[k] = "]"}
        ruleMatch == /\ Len(line) >= 2
                     /\ line[1] \in {"error", "warning"}
                     /\ line[2] = "["
                     /\ close # {}
                     /\ Min(close) >= 4
                     /\ Len(line) >= Min(close) + 3
                     /\ line[Min(close) + 1] = ":"
                     /\ line[Min(close) + 2] = " "
        t == TrimStart(line)
        v == SubSeq(t, 3, Len(t))
        at == {i \in 2..(Len(v) - 3) :
                  /\ v[i] = ":" /\ IsDigit(v[i + 1])
                  /\ v[i + 2] = ":" /\ IsDigit(v[i + 3])}
        locMatch == /\ Len(t) >= 2
                    /\ t[1] = "-->"
                    /\ IsSpace(t[2])
                    /\ at # {}
    IN IF ruleMatch
       THEN [cur |-> [severity |-> line[1],
                      rule |-> SubSeq(line, 3, Min(close) - 1),
                      message |-> SubSeq(line, Min(close) + 3, Len(line))],
             emitted |-> <<>>]
       ELSE IF locMatch /\ cur.message # <<>>
       THEN [cur |-> cur,
             emitted |-> << [line |-> ParseInt(v[Max(at) + 1]),
                             column |-> ParseInt(v[Max(at) + 3]),
                             message |-> cur.message,
                             rule |-> cur.rule,
                             severity |-> cur.severity] >>]
       ELSE [cur |-> cur, emitted |-> <<>>]

\* one iteration of the loop over the lines (lines 359-379): cur holds
\* currentSeverity, currentRule and currentMessage; ruleMatch is the match
\* of /^(error|warning)\[([^\]]+)\]: (.+)$/ and locMatch that of
\* /^\s*-->\s+.+:(\d+):(\d+)/, whose greedy .+ leaves the last
\* ":line:column" of the line to the groups
TyStep(cur, line) ==
    LET close == {k \in 3..Len(line) : line[k] = "]"}
        ruleMatch == /\ Len(line) >= 2
                     /\ line[1] \in {"error", "warning"}
                     /\ line[2] = "["
                     /\ close # {}
                     /\ Min(close) >= 4
                     /\ Len(line) >= Min(close) + 3
                     /\ line[Min(close) + 1] = ":"
                     /\ line[Min(close) + 2] = " "
        t == TrimStart(line)
        v == SubSeq(t, 3, Len(t))
        at == {i \in 2..(Len(v) - 3) :
                  /\ v[i] = ":" /\ IsDigit(v[i + 1])
                  /\ v[i + 2] = ":" /\ IsDigit(v[i + 3])}
        locMatch == /\ Len(t) >= 2
                    /\ t[1] = "-->"
                    /\ IsSpace(t[2])
                    /\ at # {}
    IN IF ruleMatch
       THEN [cur |-> [severity |-> line[1],
                      rule |-> SubSeq(line, 3, Min(close) - 1),
                      message |-> SubSeq(line, Min(close) + 3, Len(line))],
             emitted |-> <<>>]
       ELSE IF locMatch /\ cur.message # <<>>
       THEN [cur |-> [cur EXCEPT !.message = <<>>, !.rule = <<>>],
             emitted |-> << [line |-> ParseInt(v[Max(at) + 1]),
                             column |-> ParseInt(v[Max(at) + 3]),
                             message |-> cur.message,
                             rule |-> cur.rule,
                             severity |-> cur.severity] >>]
       ELSE [cur |-> cur, emitted |-> <<>>]

RECURSIVE TyLines(_, _)
TyLines(lines, cur) ==
    IF lines = <<>> THEN <<>>
    ELSE LET s == TyStep(cur, Head(lines))
         IN s.emitted \o TyLines(Tail(lines), s.cur)

ParseTy(output) ==
    TyLines(Split(output, "\n"),
            [severity |-> "error", rule |-> <<>>, message |-> <<>>])

ParserNames == {"ruff", "ty", "prettier", "generic"}

\* the function parsers[name]
BuiltIn(name) == [kind |-> "builtin", name |-> name]

\* ---------------------------------------------------------------------
\* Custom parsers.  A pattern is a sequence of atoms, each standing for one
\* token of a line: a literal, \d+ or [A-Z]+\d+, with or without a group
\* name; the atom (.+)$ stands for the rest of the line; an unclosed
\* parenthesis makes the pattern an invalid regular expression.
\* ---------------------------------------------------------------------
Lit(t) == [class |-> "lit", lit |-> t, group |-> ""]

Group(name, class) == [class |-> class, lit |-> "", group |-> name]

Unclosed == [class |-> "unclosed", lit |-> "(", group |-> ""]

\* new RegExp(pattern, "gm") does not throw
Compiles(regex) == \A k \in 1..Len(regex) : regex[k].class # "unclosed"

\* regex matches line from token i on
MatchesAt(regex, line, i) ==
    \A k \in 1..Len(regex) :
        /\ i + k - 1 <= Len(line)
        /\ CASE regex[k].class = "lit" -> line[i + k - 1] = regex[k].lit
             [] regex[k].class = "digit" -> IsDigit(line[i + k - 1])
             [] regex[k].class = "rulecode" -> IsRuleCode(line[i + k - 1])
             [] regex[k].class = "rest" -> k = Len(regex)
             [] OTHER -> FALSE

\* regex.exec(line) with lastIndex 0: None for null, else match.groups, a
\* function from the group names of the regex to the text they matched
\* (empty when the regex names no group and match.groups is undefined)
RegexExec(regex, line) ==
    LET hits == {i \in 1..Len(line) : MatchesAt(regex, line, i)}
        named == {k \in 1..Len(regex) : regex[k].group # ""}
        atomOf(name) == CHOOSE k \in named : regex[k].group = name
    IN IF hits = {} THEN None
       ELSE Some([name \in {regex[k].group : k \in named} |->
                     IF regex[atomOf(name)].class = "rest"
                     THEN SubSeq(line, Min(hits) + atomOf(name) - 1, Len(line))
                     ELSE <<line[Min(hits) + atomOf(name) - 1]>>])

\* the object regexParser pushes for a line whose match has groups g;
\* fields whose value is undefined are left out
RegexDiagnostic(parser, g, line) ==
    [f \in {"message", "severity"} \cup ({"line", "column", "rule"} \cap DOMAIN g) |->
        CASE f = "line" -> ParseInt(g.line[1])
          [] f = "column" -> ParseInt(g.column[1])
          [] f = "rule" -> g.rule[1]
          [] f = "message" -> IF "message" \in DOMAIN g THEN g.message ELSE Trim(line)
          [] f = "severity" -> IF "severity" \in DOMAIN g THEN g.severity[1]
                               ELSE parser.defaultSeverity]

RECURSIVE RegexLines(_, _)
RegexLines(parser, lines) ==
    IF lines = <<>> THEN <<>>
    ELSE LET m == RegexExec(parser.regex, Head(lines))
         IN (IF m # None /\ DOMAIN m[1] # {}
             THEN << RegexDiagnostic(parser, m[1], Head(lines)) >>
             ELSE <<>>) \o RegexLines(parser, Tail(lines))

\* createRegexParser: the parser made of an inline pattern, None when
\* new RegExp throws
createRegexParser(cfg) ==
    IF Compiles(cfg.pattern[1])
    THEN Some([kind |-> "regex", regex |-> cfg.pattern[1],
               defaultSeverity |-> IF cfg.severity = None THEN "error"
                                   ELSE cfg.severity[1]])
    ELSE None

\* mutant of getParser: inline patterns are not supported
getParserNamesOnly(parserConfig) ==
    IF parserConfig = None THEN BuiltIn("generic")
    ELSE IF parserConfig[1].kind = "string" /\ parserConfig[1].name \in ParserNames
         THEN BuiltIn(parserConfig[1].name)
    ELSE BuiltIn("generic")

\* getParser: the parser function chosen for a check; the exception of
\* createRegexParser is caught
getParser(parserConfig) ==
    IF parserConfig = None THEN BuiltIn("generic")
    ELSE IF parserConfig[1].kind = "string"
         THEN IF parserConfig[1].name \in ParserNames
              THEN BuiltIn(parserConfig[1].name)
              ELSE BuiltIn("generic")
    ELSE IF parserConfig[1].kind = "object" /\ parserConfig[1].pattern # None
         THEN IF createRegexParser(parserConfig[1]) = None
              THEN BuiltIn("generic")
              ELSE createRegexParser(parserConfig[1])[1]
    ELSE BuiltIn("generic")

\* calling the function getParser returned
Parse(parser, output) ==
    IF parser.kind = "regex" THEN RegexLines(parser, Split(output, "\n"))
    ELSE CASE parser.name = "ruff" -> ParseRuff(output)
           [] parser.name = "ty" -> ParseTy(output)
           [] parser.name = "prettier" -> ParsePrettier(output)
           [] OTHER -> ParseGeneric(output)

\* ---------------------------------------------------------------------
\* Check executor
\* ---------------------------------------------------------------------
\* String.prototype.replace(string, string): the first occurrence only
RECURSIVE ReplaceFirst(_, _, _)
ReplaceFirst(s, from, to) ==
    IF s = <<>> THEN <<>>
    ELSE IF StartsWith(s, from)
         THEN to \o SubSeq(s, Len(from) + 1, Len(s))
         ELSE <<s[1]>> \o ReplaceFirst(Tail(s), from, to)

FileToken == "$FILE"

\* check.args.map(arg => arg === "$FILE" ? filePath : arg.replace("$FILE", filePath))
SubstituteArgs(args, file) ==
    [k \in 1..Len(args) |->
        IF args[k] = <<FileToken>> THEN file
        ELSE ReplaceFirst(args[k], <<FileToken>>, file)]

\* the diagnostic pushed when the command is not on the path
MissingToolDiagnostic(chk) ==
    [message |-> chk.command \o <<" ", "not found", " ", "-", " ", "skipping", " ">> \o chk.name,
     source |-> chk.name,
     severity |-> "warning"]

\* mutant of IsNotFoundOutput: only the longer phrase counts
IsNotFoundOutputCommandOnly(combined) ==
    Includes(combined, <<"command", " ", "not found">>)

\* combined.includes("not found") || combined.includes("command not found")
IsNotFoundOutput(combined) ==
    \/ Includes(combined, <<"not found">>)
    \/ Includes(combined, <<"command", " ", "not found">>)

DefaultMaxDiagnostics == 5

\* Array.prototype.slice(0, n), n of either sign
SliceTo(seq, n) ==
    IF n >= 0 THEN Slice0(seq, n)
    ELSE SubSeq(seq, 1, IF Len(seq) + n > 0 THEN Len(seq) + n ELSE 0)

\* {...d, source: name}
WithSource(d, name) ==
    [f \in (DOMAIN d) \cup {"source"} |-> IF f = "source" THEN name ELSE d[f]]

\* mutant of CapDiagnostics: keeps the last maxDiagnostics diagnostics
CapDiagnosticsLast(parsed, chk) ==
    LET maxDiagnostics == IF chk.maxDiagnostics = None \/ chk.maxDiagnostics[1] = 0
                          THEN DefaultMaxDiagnostics
                          ELSE chk.maxDiagnostics[1]
        kept == SubSeq(parsed,
                       IF Len(parsed) > maxDiagnostics
                       THEN Len(parsed) - maxDiagnostics + 1 ELSE 1,
                       Len(parsed))
    IN [k \in 1..Len(kept) |-> WithSource(kept[k], chk.name)]

\* the diagnostics pushed when the parser found some
CapDiagnostics(parsed, chk) ==
    LET maxDiagnostics == IF chk.maxDiagnostics = None \/ chk.maxDiagnostics[1] = 0
                          THEN DefaultMaxDiagnostics
                          ELSE chk.maxDiagnostics[1]
        kept == SliceTo(parsed, maxDiagnostics)
    IN [k \in 1..Len(kept) |-> WithSource(kept[k], chk.name)]

FallbackLines == 3

\* the diagnostic pushed when the parser found nothing
FallbackDiagnostic(combined, chk) ==
    [message |-> truncateOutput(combined, FallbackLines),
     source |-> chk.name,
     severity |-> "error"]

\* runCheck: the diagnostics returned, the argument lists spawned and the
\* texts parsed
runCheck(chk, file, t) ==
    IF ~commandExists(chk.command, t)
    THEN [diagnostics |-> << MissingToolDiagnostic(chk) >>,
          spawned |-> <<>>, parsed |-> <<>>]
    ELSE LET args == SubstituteArgs(chk.args, file)
             result == runCommand(chk.command, args, t)
             combined == result.stdout \o result.stderr
             parsed == Parse(getParser(chk.parser), combined)
         IN IF result.success
            THEN [diagnostics |-> <<>>, spawned |-> << args >>, parsed |-> <<>>]
            ELSE IF IsNotFoundOutput(combined)
            THEN [diagnostics |-> <<>>, spawned |-> << args >>, parsed |-> <<>>]
            ELSE [diagnostics |-> IF Len(parsed) > 0
                                  THEN CapDiagnostics(parsed, chk)
                                  ELSE << FallbackDiagnostic(combined, chk) >>,
                  spawned |-> << args >>,
                  parsed |-> << combined >>]

\* ---------------------------------------------------------------------
\* Inputs of the resolver: a monorepo with a subtree s/a ("services/api")
\* ---------------------------------------------------------------------
Root == <<"/", "r">>

ApiPyFile    == <<"/", "r", "/", "s", "/", "a", "/", "f", ".", "p">>
ApiGenFile   == <<"/", "r", "/", "s", "/", "a", "/", "f", ".", "g", ".", "p">>
ApiTsFile    == <<"/", "r", "/", "s", "/", "a", "/", "f", ".", "t">>
WebPyFile    == <<"/", "r", "/", "w", "/", "f", ".", "p">>
RootTsFile   == <<"/", "r", "/", "f", ".", "t">>
OutsideFile  == <<"/", "x", "/", "f", ".", "p">>

Files == {ApiPyFile, ApiGenFile, ApiTsFile, WebPyFile, RootTsFile, OutsideFile}

ApiPath == <<"s", "/", "a">>
DotPath == <<".">>

GenPattern == <<"*", "*", "/", "*", ".", "g", ".", "p">>
ApiAllPattern == <<"s", "/", "a", "/", "*", "*">>

PyExt == <<".", "p">>
TsExt == <<".", "t">>
BothKey == <<".", "t", ",", " ", ".", "p">>

\* a parser given by name in the configuration
ParserNamed(name) == Some([kind |-> "string", name |-> name])

\* a parser entry that is an object {pattern, severity}
ParserObject(regex, severity) ==
    Some([kind |-> "object", pattern |-> regex, severity |-> severity])

\* :(?<line>\d+):(?<column>\d+): (?<rule>[A-Z]+\d+) (?<message>.+)$
RuffLikePattern ==
    << Lit(":"), Group("line", "digit"), Lit(":"), Group("column", "digit"), Lit(":"),
       Lit(" "), Group("rule", "rulecode"), Lit(" "), Group("message", "rest") >>

\* :(?<line>\d+):\x20
LineOnlyPattern == << Lit(":"), Group("line", "digit"), Lit(":"), Lit(" ") >>

\* :\d+: without any named group
NoGroupPattern == << Lit(":"), Group("", "digit"), Lit(":") >>

\* (:  is not a regular expression
InvalidPattern == << Unclosed, Lit(":") >>

CustomParsers ==
    { ParserObject(Some(RuffLikePattern), None),
      ParserObject(Some(LineOnlyPattern), Some("warning")),
      ParserObject(Some(NoGroupPattern), None),
      ParserObject(Some(InvalidPattern), None),
      ParserObject(None, None),
      ParserNamed("nope") }

\* a check entry of the configuration, named after its tool and environment
MkCheck(toolName, envName, parser, maxDiagnostics) ==
    [name |-> toolName \o <<"-">> \o envName,
     command |-> toolName,
     args |-> << <<"c">>, <<FileToken>> >>,
     parser |-> parser,
     maxDiagnostics |-> maxDiagnostics]

EnvNames == << <<"A">>, <<"B">>, <<"C">>, <<"D">> >>

ChecksOptions(envName) ==
    { Some(<< [key |-> PyExt,
               checks |-> << MkCheck(<<"r">>, envName, ParserNamed("ruff"), None),
                             MkCheck(<<"p">>, envName, ParserNamed("prettier"), None) >>] >>),
      Some(<< [key |-> TsExt,
               checks |-> << MkCheck(<<"g">>, envName, ParserNamed("generic"), None) >>] >>),
      Some(<< [key |-> BothKey,
               checks |-> << MkCheck(<<"b">>, envName, None, None) >>] >>) }

PathsOptions == { None, Some(<<ApiPath>>), Some(<<DotPath>>) }

ExcludeOptions == { None, Some(<<GenPattern>>), Some(<<GenPattern, ApiAllPattern>>) }

EnvsNamed(envName) ==
    { [name |-> envName, paths |-> p, exclude |-> x, checks |-> c] :
        p \in PathsOptions, x \in ExcludeOptions, c \in ChecksOptions(envName) }

\* all environment lists of length n, the i-th environment named EnvNames[i]
RECURSIVE EnvLists(_)
EnvLists(n) ==
    IF n = 0 THEN { <<>> }
    ELSE { Append(l, e) : l \in EnvLists(n - 1), e \in EnvsNamed(EnvNames[n]) }

ResolveConfigs ==
    { [environments |-> None] } \cup
    { [environments |-> Some(l)] : l \in UNION { EnvLists(n) : n \in 0..MaxEnvs } }

\* values of the variables a specification does not use
NoResult == [checks |-> <<>>, reason |-> "pending"]
NoCheck == MkCheck(<<"n">>, <<"N">>, None, None)
NoTool == [exists |-> FALSE, status |-> 0, stdout |-> <<>>, stderr |-> <<>>]
NoConfig == [environments |-> None]
NoInput == [tool_name |-> ""]
NoMatch == <<>>
NoWorld == [fileExists |-> TRUE, projectRoot |-> None, configFile |-> "missing",
            hasGit |-> FALSE, gitMarkers |-> {}, toolBehaviours |-> {}]

\* ---------------------------------------------------------------------
\* Specification of the resolver: one call of getChecksForFile
\* ---------------------------------------------------------------------
InitResolve ==
    /\ pc = "resolve"
    /\ config \in ResolveConfigs
    /\ filePath \in Files
    /\ checkResult = NoResult
    /\ check = NoCheck
    /\ tool = NoTool
    /\ spawned = <<>>
    /\ parserCalls = <<>>
    /\ checkDiagnostics = <<>>
    /\ world = NoWorld
    /\ idx = 0
    /\ results = <<>>
    /\ diagnostics = <<>>
    /\ hasFailures = FALSE
    /\ hostOutput = <<>>
    /\ input = NoInput
    /\ match = NoMatch
    /\ excludePattern = <<>>
    /\ validation = None
    /\ excluded = FALSE

GetChecksForFile ==
    /\ pc = "resolve"
    /\ checkResult' = getChecksForFile(config, filePath, Root)
    /\ pc' = "resolved"
    /\ UNCHANGED <<validation, excludePattern, excluded, input, match, config, filePath, check, tool, spawned, parserCalls,
                   checkDiagnostics, world, idx, results, diagnostics,
                   hasFailures, hostOutput>>

NextResolve == GetChecksForFile

SpecResolve == InitResolve /\ [][NextResolve]_vars

\* ---------------------------------------------------------------------
\* Inputs of the check executor: what a tool may write and how it exits
\* ---------------------------------------------------------------------
MaxLines == 6
MaxCap == 2

\* "f:<i>:1: E1 m", a line the ruff pattern matches
DiagLine(i) == <<"f", ":", Digits[i], ":", "1", ":", " ", "E1", " ", "m">>

\* "f:1: E1 m", a line no modelled pattern matches (no column)
JunkLine == <<"f", ":", "1", ":", " ", "E1", " ", "m">>

LineKindSeqs == UNION { [1..n -> {"D", "X"}] : n \in 0..MaxLines }

RenderLines(kinds) ==
    Join([i \in 1..Len(kinds) |->
             IF kinds[i] = "D" THEN DiagLine(i) ELSE JunkLine], "\n")

Stdouts == { RenderLines(k) \o nl : k \in LineKindSeqs, nl \in {<<>>, <<"\n">>} }

Stderrs == { <<>>,
             <<"x", "\n">>,
             <<"sh", ":", " ", "r", ":", " ", "not found", "\n">> }

ToolBehaviours ==
    { [exists |-> e, status |-> st, stdout |-> o, stderr |-> r] :
        e \in BOOLEAN, st \in {0, 1}, o \in Stdouts, r \in Stderrs }

\* output of ty: line i is a header with its own rule and message, a
\* location of its own line number, or a line of neither shape (the source
\* excerpt below a location)
MaxTyLines == 4

TyHeader(severity, i) ==
    <<severity, "[", "r", Digits[i], "]", ":", " ", "m", Digits[i]>>

TyLocation(i) == <<" ", "-->", " ", "f", ":", "7", ":", "1", ":", Digits[i], ":", "2">>

TyStdouts ==
    { Join([i \in 1..Len(kinds) |->
               CASE kinds[i] = "E" -> TyHeader("error", i)
                 [] kinds[i] = "W" -> TyHeader("warning", i)
                 [] kinds[i] = "L" -> TyLocation(i)
                 [] OTHER -> <<Digits[i], " ", "|", " ", "x", ":", "1", ":", "1">>],
           "\n") :
        kinds \in UNION { [1..n -> {"E", "W", "L", "X"}] : n \in 0..MaxTyLines } }

TyBehaviours ==
    { [exists |-> TRUE, status |-> 1, stdout |-> o, stderr |-> <<>>] : o \in TyStdouts }

\* argument lists of a check: the placeholder inside a longer argument,
\* twice inside one argument, and not at all
ArgLists ==
    { << <<"x">>, <<FileToken, ".", "b">>, <<FileToken>> >>,
      << <<"o", "=", FileToken, ":", FileToken>> >>,
      << <<"x">> >> }

CheckInputs ==
    { MkCheck(<<"r">>, <<"A">>, p, m) :
        p \in {None, ParserNamed("ruff"), ParserNamed("prettier")},
        m \in {None} \cup { Some(n) : n \in 1..MaxCap } } \cup
    { [MkCheck(<<"r">>, <<"A">>, None, None) EXCEPT !.args = a] : a \in ArgLists } \cup
    { MkCheck(<<"r">>, <<"A">>, p, None) : p \in CustomParsers }

\* ---------------------------------------------------------------------
\* Specification of the check executor: one call of runCheck
\* ---------------------------------------------------------------------
InitCheck ==
    /\ pc = "check"
    /\ config = NoConfig
    /\ filePath = ApiPyFile
    /\ checkResult = NoResult
    /\ \/ check \in CheckInputs /\ tool \in ToolBehaviours
       \/ /\ check = MkCheck(<<"t">>, <<"A">>, ParserNamed("ty"), None)
          /\ tool \in TyBehaviours
    /\ spawned = <<>>
    /\ parserCalls = <<>>
    /\ checkDiagnostics = <<>>
    /\ world = NoWorld
    /\ idx = 0
    /\ results = <<>>
    /\ diagnostics = <<>>
    /\ hasFailures = FALSE
    /\ hostOutput = <<>>
    /\ input = NoInput
    /\ match = NoMatch
    /\ excludePattern = <<>>
    /\ validation = None
    /\ excluded = FALSE

RunCheck ==
    /\ pc = "check"
    /\ LET r == runCheck(check, filePath, tool)
       IN /\ checkDiagnostics' = r.diagnostics
          /\ spawned' = spawned \o r.spawned
          /\ parserCalls' = parserCalls \o r.parsed
    /\ pc' = "checked"
    /\ UNCHANGED <<validation, excludePattern, excluded, input, match, config, filePath, checkResult, check, tool, world, idx,
                   results, diagnostics, hasFailures, hostOutput>>

NextCheck == RunCheck

SpecCheck == InitCheck /\ [][NextCheck]_vars

\* ---------------------------------------------------------------------
\* Git state detection
\* ---------------------------------------------------------------------
DEFAULT_SKIP_OPERATIONS ==
    [rebase |-> TRUE, am |-> TRUE, bisect |-> TRUE,
     merge |-> FALSE, cherryPick |-> FALSE, revert |-> FALSE]

\* detectGitOperation: the operation the marker files under .git stand
\* for, "none" for null
detectGitOperation(w) ==
    IF ~w.hasGit THEN "none"
    ELSE IF "rebase-merge" \in w.gitMarkers THEN "rebase"
    ELSE IF "rebase-apply/applying" \in w.gitMarkers THEN "am"
    ELSE IF "rebase-apply" \in w.gitMarkers THEN "rebase"
    ELSE IF "BISECT_LOG" \in w.gitMarkers THEN "bisect"
    ELSE IF "CHERRY_PICK_HEAD" \in w.gitMarkers THEN "cherryPick"
    ELSE IF "REVERT_HEAD" \in w.gitMarkers THEN "revert"
    ELSE IF "MERGE_HEAD" \in w.gitMarkers THEN "merge"
    ELSE "none"

\* mutant of shouldSkipForGitOperation: the "git" entry of the
\* configuration is never read
shouldSkipDefaultsOnly(cfg, w) ==
    LET operation == detectGitOperation(w)
    IN IF operation = "none" THEN [skip |-> FALSE, operation |-> "none"]
       ELSE [skip |-> DEFAULT_SKIP_OPERATIONS[operation], operation |-> operation]

\* shouldSkipForGitOperation; cfg is None (null) or Some(config)
shouldSkipForGitOperation(cfg, w) ==
    LET operation == detectGitOperation(w)
        skipConfig == IF cfg = None \/ cfg[1].git = None
                      THEN [o \in {} |-> TRUE]
                      ELSE cfg[1].git[1]
    IN IF operation = "none" THEN [skip |-> FALSE, operation |-> "none"]
       ELSE [skip |-> IF operation \in DOMAIN skipConfig
                      THEN skipConfig[operation]
                      ELSE DEFAULT_SKIP_OPERATIONS[operation],
             operation |-> operation]

\* ---------------------------------------------------------------------
\* Output helpers and the outcome written for the host
\* ---------------------------------------------------------------------
formatDiagnostic(d) ==
    [icon |-> IF d.severity = "error" THEN "X" ELSE "!",
     location |-> IF "line" \in DOMAIN d
                  THEN IF "column" \in DOMAIN d
                       THEN <<"[Line ", d.line, ":", d.column, "]">>
                       ELSE <<"[Line ", d.line, "]">>
                  ELSE <<>>,
     message |-> d.message,
     rule |-> IF "rule" \in DOMAIN d THEN <<" [", d.rule, "]">> ELSE <<>>,
     source |-> d.source]

\* mutant of formatDiagnosticsBlock: only the first diagnostic is listed
formatDiagnosticsBlockFirstOnly(diags, fileName) ==
    [fileName |-> fileName,
     lines |-> [k \in 1..(IF diags = <<>> THEN 0 ELSE 1) |-> formatDiagnostic(diags[k])]]

formatDiagnosticsBlock(diags, fileName) ==
    [fileName |-> fileName,
     lines |-> [k \in 1..Len(diags) |-> formatDiagnostic(diags[k])]]

\* results.map(r => `${r.passed ? "✅" : "❌"} ${r.name}`).join(" ")
RECURSIVE StatusLine(_)
StatusLine(rs) ==
    IF rs = <<>> THEN <<>>
    ELSE LET entry == <<IF rs[1].passed THEN "\\u2705" ELSE "\\u274C", " ">> \o rs[1].name
         IN IF Len(rs) = 1 THEN entry
            ELSE entry \o <<" ">> \o StatusLine(Tail(rs))

\* the object pass(message) writes
PassOutput(message) == [systemMessage |-> <<"[checkmate] ">> \o message]

\* the object block(reason, message) writes
BlockOutput(reason, message) ==
    [decision |-> "block", reason |-> reason,
     systemMessage |-> <<"[checkmate] ">> \o message]

\* ---------------------------------------------------------------------
\* Configuration loading and the self-check of the configuration file
\* ---------------------------------------------------------------------
\* ".claude/checkmate.json", abbreviated
ConfigSuffix == <<".", "c", "/", "k", ".", "j">>

ConfigFile == Root \o <<"/">> \o ConfigSuffix

\* loadConfig: cfg is what the file holds when it parses
loadConfig(w, cfg) ==
    IF w.projectRoot = None THEN [config |-> None, projectRoot |-> None]
    ELSE IF w.configFile \in {"missing", "malformed"}
         THEN [config |-> None, projectRoot |-> w.projectRoot]
         ELSE [config |-> Some(cfg), projectRoot |-> w.projectRoot]

\* validateConfigFile applied to the project's configuration file; whether
\* the parsed document passes validateConfig is a fact of the world here
validateConfigFile(w) ==
    IF w.configFile = "missing"
    THEN [valid |-> FALSE, errors |-> << [path |-> <<>>, message |-> <<"Cannot read">>] >>]
    ELSE IF w.configFile = "malformed"
    THEN [valid |-> FALSE, errors |-> << [path |-> <<>>, message |-> <<"Invalid JSON">>] >>]
    ELSE IF w.configFile = "invalid"
    THEN [valid |-> FALSE,
          errors |-> << [path |-> <<"environments">>, message |-> <<"must be array">>] >>]
    ELSE [valid |-> TRUE, errors |-> <<>>]

\* ---------------------------------------------------------------------
\* run(): the main routine of the post-tool hook
\* ---------------------------------------------------------------------
isConfigFile(file) == EndsWith(file, ConfigSuffix)

\* readStdinJson: the event read from standard input, None when JSON.parse
\* throws on what was read
readStdinJson(w, event) ==
    IF w.stdin = "event" THEN Some(event) ELSE None

\* mutant of EarlyPass: an edited configuration file that fails its
\* self-check is reported even while a git operation suspends the checks
EarlyPassSelfCheckFirst(file, w, cfg) ==
    LET loaded == loadConfig(w, cfg)
        gitCheck == shouldSkipForGitOperation(loaded.config, w)
    IN IF file = <<>> THEN Some(<<"No file path provided">>)
       ELSE IF ~w.fileExists THEN Some(<<"File not found: ">> \o file)
       ELSE IF loaded.projectRoot = None
            THEN Some(<<"CLAUDE_PROJECT_DIR not set - hook requires Claude Code environment">>)
       ELSE IF loaded.config = None /\ ~isConfigFile(file)
            THEN Some(<<"disabled (run /checkmate:init to configure)">>)
       ELSE IF gitCheck.skip /\ ~(isConfigFile(file) /\ ~validateConfigFile(w).valid)
            THEN Some(<<"skipped (git ", gitCheck.operation, " in progress)">>)
       ELSE None

\* the message of the pass() that ends run() before any check, or None
EarlyPass(file, w, cfg) ==
    LET loaded == loadConfig(w, cfg)
        gitCheck == shouldSkipForGitOperation(loaded.config, w)
    IN IF file = <<>> THEN Some(<<"No file path provided">>)
       ELSE IF ~w.fileExists THEN Some(<<"File not found: ">> \o file)
       ELSE IF loaded.projectRoot = None
            THEN Some(<<"CLAUDE_PROJECT_DIR not set - hook requires Claude Code environment">>)
       ELSE IF loaded.config = None /\ ~isConfigFile(file)
            THEN Some(<<"disabled (run /checkmate:init to configure)">>)
       ELSE IF gitCheck.skip
            THEN Some(<<"skipped (git ", gitCheck.operation, " in progress)">>)
       ELSE None

\* the diagnostics of a failed self-check
SchemaDiagnostics(errors) ==
    [k \in 1..Len(errors) |->
        [message |-> errors[k].message,
         rule |-> IF errors[k].path # <<>> THEN errors[k].path ELSE <<"schema">>,
         source |-> <<"schema">>,
         severity |-> "error"]]

\* lines 666-708: read the event, leave early with a pass, or resolve the
\* checks of the file; an exception of readStdinJson is caught nowhere
\* (scripts/checkmate.mjs:30) and ends the process without output
RunStart ==
    /\ pc = "start"
    /\ LET early == EarlyPass(filePath, world, config)
           loaded == loadConfig(world, config)
       IN IF readStdinJson(world, [tool_input |-> [file_path |-> filePath]]) = None
          THEN /\ pc' = "crashed"
               /\ UNCHANGED <<hostOutput, checkResult, idx>>
          ELSE IF early # None
          THEN /\ hostOutput' = Append(hostOutput, PassOutput(early[1]))
               /\ pc' = "exited"
               /\ UNCHANGED <<checkResult, idx>>
          ELSE /\ checkResult' = IF loaded.config # None
                                 THEN getChecksForFile(loaded.config[1], filePath,
                                                       loaded.projectRoot[1])
                                 ELSE [checks |-> <<>>, reason |-> "no-config"]
               /\ idx' = 1
               /\ pc' = "checks"
               /\ UNCHANGED hostOutput
    /\ UNCHANGED <<validation, excludePattern, excluded, input, match, config, filePath, check, tool, spawned, parserCalls,
                   checkDiagnostics, world, results, diagnostics, hasFailures>>

\* mutant of RunNextCheck: the loop stops at the first check that reports
\* diagnostics
RunNextCheckShortCircuit ==
    /\ pc = "checks"
    /\ idx <= Len(checkResult.checks)
    /\ \E t \in world.toolBehaviours :
          LET chk == checkResult.checks[idx]
              r == runCheck(chk, filePath, t)
          IN /\ check' = chk
             /\ tool' = t
             /\ checkDiagnostics' = r.diagnostics
             /\ spawned' = spawned \o r.spawned
             /\ parserCalls' = parserCalls \o r.parsed
             /\ results' = Append(results, [name |-> chk.name,
                                            passed |-> ~(Len(r.diagnostics) > 0)])
             /\ hasFailures' = (hasFailures \/ Len(r.diagnostics) > 0)
             /\ diagnostics' = diagnostics \o r.diagnostics
             /\ idx' = IF Len(r.diagnostics) > 0
                       THEN Len(checkResult.checks) + 1
                       ELSE idx + 1
    /\ UNCHANGED <<validation, excludePattern, excluded, input, match, pc, config, filePath, checkResult, world, hostOutput>>

\* lines 709-718: one iteration of the loop over checkResult.checks; the
\* external command behaves in one of the ways of RunToolBehaviours
RunNextCheck ==
    /\ pc = "checks"
    /\ idx <= Len(checkResult.checks)
    /\ \E t \in world.toolBehaviours :
          LET chk == checkResult.checks[idx]
              r == runCheck(chk, filePath, t)
          IN /\ check' = chk
             /\ tool' = t
             /\ checkDiagnostics' = r.diagnostics
             /\ spawned' = spawned \o r.spawned
             /\ parserCalls' = parserCalls \o r.parsed
             /\ results' = Append(results, [name |-> chk.name,
                                            passed |-> ~(Len(r.diagnostics) > 0)])
             /\ hasFailures' = (hasFailures \/ Len(r.diagnostics) > 0)
             /\ diagnostics' = diagnostics \o r.diagnostics
    /\ idx' = idx + 1
    /\ UNCHANGED <<validation, excludePattern, excluded, input, match, pc, config, filePath, checkResult, world, hostOutput>>

\* lines 721-759: the self-check of an edited configuration file, then the
\* block or pass that ends the run
RunReport ==
    /\ pc = "checks"
    /\ idx > Len(checkResult.checks)
    /\ LET validationResult == validateConfigFile(world)
           selfFailed == isConfigFile(filePath) /\ ~validationResult.valid
           allResults == IF isConfigFile(filePath)
                         THEN Append(results, [name |-> <<"schema">>,
                                               passed |-> validationResult.valid])
                         ELSE results
           allDiagnostics == IF selfFailed
                             THEN diagnostics \o SchemaDiagnostics(validationResult.errors)
                             ELSE diagnostics
           failures == hasFailures \/ selfFailed
           statusLine == StatusLine(allResults)
           checksRan == Len(checkResult.checks) > 0
       IN /\ results' = allResults
          /\ diagnostics' = allDiagnostics
          /\ hasFailures' = failures
          /\ hostOutput' =
                Append(hostOutput,
                       IF failures
                       THEN BlockOutput(formatDiagnosticsBlock(allDiagnostics,
                                                               Basename(filePath)),
                                        statusLine)
                       ELSE IF ~checksRan /\ ~isConfigFile(filePath)
                       THEN PassOutput(IF checkResult.reason = "path-excluded"
                                       THEN <<"excluded">> ELSE <<"skipped">>)
                       ELSE PassOutput(statusLine))
    /\ pc' = "exited"
    /\ UNCHANGED <<validation, excludePattern, excluded, input, match, config, filePath, checkResult, check, tool, spawned,
                   parserCalls, checkDiagnostics, world, idx>>

\* ---------------------------------------------------------------------
\* Inputs of run(): the event, the project and the machine
\* ---------------------------------------------------------------------
RunEnvironment ==
    [name |-> <<"A">>,
     paths |-> Some(<<DotPath>>),
     exclude |-> Some(<<GenPattern>>),
     checks |-> Some(<< [key |-> PyExt,
                         checks |-> << MkCheck(<<"r">>, <<"A">>, ParserNamed("ruff"), None),
                                       MkCheck(<<"p">>, <<"A">>, ParserNamed("prettier"), None) >>] >>)]

GitOverrides ==
    { None,
      Some([rebase |-> FALSE]),
      Some([rebase |-> TRUE, cherryPick |-> FALSE]),
      Some([cherryPick |-> TRUE, merge |-> FALSE]) }

RunConfigs ==
    { [environments |-> Some(<<RunEnvironment>>), git |-> g] : g \in GitOverrides }

GitStates ==
    { [hasGit |-> FALSE, gitMarkers |-> {}] } \cup
    { [hasGit |-> TRUE, gitMarkers |-> m] :
        m \in { {}, {"rebase-merge"}, {"rebase-apply", "rebase-apply/applying"},
                {"rebase-apply"}, {"BISECT_LOG"}, {"CHERRY_PICK_HEAD"},
                {"REVERT_HEAD"}, {"MERGE_HEAD"}, {"MERGE_HEAD", "BISECT_LOG"} } }

RunToolBehaviours ==
    { [exists |-> FALSE, status |-> 0, stdout |-> <<>>, stderr |-> <<>>],
      [exists |-> TRUE, status |-> 0, stdout |-> DiagLine(1) \o <<"\n">>, stderr |-> <<>>],
      [exists |-> TRUE, status |-> 1,
       stdout |-> DiagLine(1) \o <<"\n">> \o DiagLine(2) \o <<"\n">>, stderr |-> <<>>],
      [exists |-> TRUE, status |-> 1, stdout |-> <<>>,
       stderr |-> <<"sh", ":", " ", "r", ":", " ", "not found", "\n">>] }

RunFiles == { <<>>, ApiPyFile, ApiGenFile, ApiTsFile, ConfigFile }

\* the project's configuration file exists exactly when it is not missing
Worlds ==
    { [stdin |-> sj, fileExists |-> fe, projectRoot |-> pr, configFile |-> cf,
       hasGit |-> g.hasGit, gitMarkers |-> g.gitMarkers,
       toolBehaviours |-> RunToolBehaviours] :
        sj \in {"event", "garbage"},
        fe \in BOOLEAN, pr \in {None, Some(Root)},
        cf \in {"missing", "malformed", "invalid", "valid"},
        g \in GitStates }

\* ---------------------------------------------------------------------
\* Specification of one post-tool invocation
\* ---------------------------------------------------------------------
InitRun ==
    /\ pc = "start"
    /\ config \in RunConfigs
    /\ filePath \in RunFiles
    /\ world \in Worlds
    /\ (filePath = ConfigFile /\ world.projectRoot # None)
          => (world.fileExists <=> world.configFile # "missing")
    /\ world.stdin = "garbage" => filePath = <<>>
    /\ checkResult = NoResult
    /\ check = NoCheck
    /\ tool = NoTool
    /\ spawned = <<>>
    /\ parserCalls = <<>>
    /\ checkDiagnostics = <<>>
    /\ idx = 0
    /\ results = <<>>
    /\ diagnostics = <<>>
    /\ hasFailures = FALSE
    /\ hostOutput = <<>>
    /\ input = NoInput
    /\ match = NoMatch
    /\ excludePattern = <<>>
    /\ validation = None
    /\ excluded = FALSE

NextRun == RunStart \/ RunNextCheck \/ RunReport

SpecRun == InitRun /\ [][NextRun]_vars

\* =====================================================================
\* Post-task hook (post-task.mjs): task rule matching and substitution
\* =====================================================================
\* matchPattern: capture is None where the code leaves it undefined;
\* subagentType.slice(0, -suffix.length) is slice(0, 0) for an empty suffix
matchPattern(subagentType, pattern) ==
    IF pattern = subagentType THEN [matches |-> TRUE, capture |-> None]
    ELSE IF StartsWith(pattern, <<"*">>)
         THEN LET suffix == Tail(pattern)
              IN IF EndsWith(subagentType, suffix)
                 THEN [matches |-> TRUE,
                       capture |-> Some(SliceTo(subagentType, 0 - Len(suffix)))]
                 ELSE [matches |-> FALSE, capture |-> None]
         ELSE [matches |-> FALSE, capture |-> None]

\* !rule.match is false: the field is present and not the empty string
HasMatch(rule) == rule.match # None /\ rule.match[1] # <<>>

\* mutant of findMatchingTask: one pass in declaration order, exact and
\* wildcard rules alike
findMatchingTaskSinglePass(tasks, subagentType) ==
    LET hits == {k \in 1..Len(tasks) :
                    /\ HasMatch(tasks[k])
                    /\ matchPattern(subagentType, tasks[k].match[1]).matches}
    IN IF hits = {} THEN None
       ELSE Some([rule |-> tasks[Min(hits)],
                  capture |-> matchPattern(subagentType,
                                           tasks[Min(hits)].match[1]).capture])

\* findMatchingTask: None for null, else {rule, capture}
findMatchingTask(tasks, subagentType) ==
    LET exact == {k \in 1..Len(tasks) :
                    HasMatch(tasks[k]) /\ tasks[k].match[1] = subagentType}
        wildcard == {k \in 1..Len(tasks) :
                        /\ HasMatch(tasks[k])
                        /\ Includes(tasks[k].match[1], <<"*">>)
                        /\ matchPattern(subagentType, tasks[k].match[1]).matches}
    IN IF Len(tasks) = 0 THEN None
       ELSE IF exact # {} THEN Some([rule |-> tasks[Min(exact)], capture |-> None])
       ELSE IF wildcard # {}
            THEN Some([rule |-> tasks[Min(wildcard)],
                       capture |-> matchPattern(subagentType,
                                                tasks[Min(wildcard)].match[1]).capture])
       ELSE None

\* the text a replacement string stands for in String.prototype.replace:
\* "$$" is a dollar sign and "$&" the matched text ("$1" stays as it is, the
\* patterns of applySubstitutions have no groups)
RECURSIVE ExpandReplacement(_, _)
ExpandReplacement(replacement, matched) ==
    IF replacement = <<>> THEN <<>>
    ELSE IF StartsWith(replacement, <<"$", "$">>)
         THEN <<"$">> \o ExpandReplacement(SubSeq(replacement, 3, Len(replacement)), matched)
    ELSE IF StartsWith(replacement, <<"$", "&">>)
         THEN matched \o ExpandReplacement(SubSeq(replacement, 3, Len(replacement)), matched)
    ELSE <<replacement[1]>> \o ExpandReplacement(Tail(replacement), matched)

\* s.replace(/from/g, replacement) for a literal text from
RECURSIVE ReplaceGlobal(_, _, _)
ReplaceGlobal(s, from, replacement) ==
    IF s = <<>> THEN <<>>
    ELSE IF StartsWith(s, from)
         THEN ExpandReplacement(replacement, from)
                  \o ReplaceGlobal(SubSeq(s, Len(from) + 1, Len(s)), from, replacement)
         ELSE <<s[1]>> \o ReplaceGlobal(Tail(s), from, replacement)

\* applySubstitutions: first every $1, then every * of the result
applySubstitutions(template, capture) ==
    IF capture # None
    THEN ReplaceGlobal(ReplaceGlobal(template, <<"$", "1">>, capture[1]),
                       <<"*">>, capture[1])
    ELSE template

\* ---------------------------------------------------------------------
\* run() of the post-task hook
\* ---------------------------------------------------------------------
\* rule.message || ""
MessageOf(rule) == IF rule.message = None THEN <<>> ELSE rule.message[1]

\* the rule found for the event, None when run() leaves before or at the
\* lookup
TaskMatch(inp, w, cfg) ==
    LET loaded == loadConfig(w, cfg)
    IN IF inp.tool_name # "Task" THEN None
       ELSE IF inp.subagent_type = None \/ inp.subagent_type[1] = <<>> THEN None
       ELSE IF loaded.projectRoot = None THEN None
       ELSE IF loaded.config = None \/ loaded.config[1].tasks = None THEN None
       ELSE findMatchingTask(loaded.config[1].tasks[1], inp.subagent_type[1])

\* mutant of TaskOutput: a review only informs
TaskOutputReviewInforms(m) ==
    IF m = None THEN <<>>
    ELSE LET rule == m[1].rule
         IN IF rule.action = "skip"
            THEN << PassOutput(<<"\\u2705", " ">> \o rule.name) >>
            ELSE IF rule.action \in {"message", "review"}
            THEN << PassOutput(<<"\\u2139", " ">> \o rule.name) >>
            ELSE <<>>

\* what run() writes once the lookup returned m: nothing, a pass or a block
TaskOutput(m) ==
    IF m = None THEN <<>>
    ELSE LET rule == m[1].rule
         IN IF rule.action = "skip"
            THEN << PassOutput(<<"\\u2705", " ">> \o rule.name) >>
            ELSE IF rule.action = "message"
            THEN << PassOutput(<<"\\u2139", " ">> \o rule.name) >>
            ELSE IF rule.action = "review"
            THEN << BlockOutput(applySubstitutions(MessageOf(rule), m[1].capture),
                                <<"\\uD83D\\uDD0D", " ">> \o rule.name) >>
            ELSE <<>>

\* the whole of run(): read the event, look the rule up, write the outcome
\* and exit; an exception of readStdinJson ends the process without output
PostTask ==
    /\ pc = "task"
    /\ IF readStdinJson(world, input) = None
       THEN /\ pc' = "crashed"
            /\ UNCHANGED <<match, hostOutput>>
       ELSE /\ match' = TaskMatch(input, world, config)
            /\ hostOutput' = hostOutput \o TaskOutput(match')
            /\ pc' = "exited"
    /\ UNCHANGED <<validation, excludePattern, excluded, input, config, filePath, checkResult, check, tool, spawned,
                   parserCalls, checkDiagnostics, world, idx, results,
                   diagnostics, hasFailures>>

\* ---------------------------------------------------------------------
\* Inputs of the post-task hook: rules, subagent identifiers, the project
\* ---------------------------------------------------------------------
MaxRules == 2

TaskRule(name, pattern, action, message) ==
    [name |-> <<name>>, match |-> pattern, action |-> action, message |-> message]

RuleTemplates ==
    { TaskRule("x", Some(<<"a", "-", "e">>), "skip", None),
      TaskRule("r", Some(<<"a", "-", "e">>), "review", Some(<<"*", "$", "1">>)),
      TaskRule("w", Some(<<"*", "-", "e">>), "review", Some(<<"*", "-", "r", " ", "$", "1">>)),
      TaskRule("s", Some(<<"*">>), "review", Some(<<"$", "1", "!">>)),
      TaskRule("m", Some(<<"*", "e">>), "message", Some(<<"*", "!">>)),
      TaskRule("i", Some(<<"a", "*">>), "review", None),
      TaskRule("n", None, "review", Some(<<"n">>)),
      TaskRule("u", Some(<<"*", "-", "e">>), "warn", None) }

TaskLists == UNION { [1..n -> RuleTemplates] : n \in 0..MaxRules }

TaskConfigs == { [tasks |-> None] } \cup { [tasks |-> Some(l)] : l \in TaskLists }

Identifiers ==
    { <<"a", "-", "e">>, <<"A", "-", "e">>, <<"b", "-", "e">>, <<"e">>,
      <<"a", "*">>, <<"a", "*", "-", "e">>, <<"$", "$", "-", "e">> }

TaskInputs ==
    { [tool_name |-> "Edit", subagent_type |-> None],
      [tool_name |-> "Task", subagent_type |-> None],
      [tool_name |-> "Task", subagent_type |-> Some(<<>>)] } \cup
    { [tool_name |-> "Task", subagent_type |-> Some(i)] : i \in Identifiers }

TaskWorlds ==
    { [stdin |-> sj, projectRoot |-> pr, configFile |-> cf] :
        sj \in {"event", "garbage"}, pr \in {None, Some(Root)},
        cf \in {"missing", "malformed", "valid"} }

InitTask ==
    /\ pc = "task"
    /\ config \in TaskConfigs
    /\ input \in TaskInputs
    /\ world \in TaskWorlds
    /\ world.stdin = "garbage" => input = [tool_name |-> "Edit", subagent_type |-> None]
    /\ match = NoMatch
    /\ filePath = <<>>
    /\ checkResult = NoResult
    /\ check = NoCheck
    /\ tool = NoTool
    /\ spawned = <<>>
    /\ parserCalls = <<>>
    /\ checkDiagnostics = <<>>
    /\ idx = 0
    /\ results = <<>>
    /\ diagnostics = <<>>
    /\ hasFailures = FALSE
    /\ hostOutput = <<>>
    /\ excludePattern = <<>>
    /\ validation = None
    /\ excluded = FALSE

NextTask == PostTask

SpecTask == InitTask /\ [][NextTask]_vars

\* =====================================================================
\* Specification of one call of matchesExcludePattern
\* =====================================================================
MaxPattern == 4
MaxPath == 4

PatternChars == {"*", "/", ".", "a"}

PathChars == {"a", ".", "/"}

GlobPatterns == UNION { [1..n -> PatternChars] : n \in 1..MaxPattern }

\* what path.relative returns for a file below the project root: segments
\* separated by single slashes, none of them empty, "." or ".."
RelativePaths ==
    { p \in UNION { [1..n -> PathChars] : n \in 1..MaxPath } :
        \A k \in 1..Len(Split(p, "/")) :
            Split(p, "/")[k] \notin { <<>>, <<".">>, <<".", ".">> } }

InitGlob ==
    /\ pc = "glob"
    /\ excludePattern \in GlobPatterns
    /\ validation = None
    /\ filePath \in { Root \o <<"/">> \o p : p \in RelativePaths }
    /\ excluded = FALSE
    /\ config = NoConfig
    /\ input = NoInput
    /\ match = NoMatch
    /\ world = NoWorld
    /\ checkResult = NoResult
    /\ check = NoCheck
    /\ tool = NoTool
    /\ spawned = <<>>
    /\ parserCalls = <<>>
    /\ checkDiagnostics = <<>>
    /\ idx = 0
    /\ results = <<>>
    /\ diagnostics = <<>>
    /\ hasFailures = FALSE
    /\ hostOutput = <<>>

\* lines 188 and 200-201: the exclude test of the file's relative path
MatchesExcludePattern ==
    /\ pc = "glob"
    /\ excluded' = matchesExcludePattern(Relative(Root, filePath), excludePattern)
    /\ pc' = "matched"
    /\ UNCHANGED <<validation, excludePattern, input, match, config, filePath, checkResult,
                   check, tool, spawned, parserCalls, checkDiagnostics, world,
                   idx, results, diagnostics, hasFailures, hostOutput>>

NextGlob == MatchesExcludePattern

SpecGlob == InitGlob /\ [][NextGlob]_vars

\* ---------------------------------------------------------------------
\* Configuration validator (validate.mjs).  A parsed JSON value is a record
\* tagged with its kind: [t |-> "null"], "bool", "num", "str" (v a text),
\* "arr" (v a sequence), "obj" (v a record of the fields present) and
\* "map" (an object keyed by extensions or operations: v a sequence of
\* [key, value]).  An error message "<path>: <text>" is a record of the
\* two parts.  A validator returns its errors, or threw when one of its
\* property reads raises a TypeError.
\* ---------------------------------------------------------------------
MaxValidateEnvs == 2

\* x[field]; [t |-> "undefined"] is what a missing property reads as
Get(x, field) ==
    IF x.t = "obj" /\ field \in DOMAIN x.v THEN x.v[field] ELSE [t |-> "undefined"]

\* mutant of Truthy: every string counts as true
TruthyAnyString(x) ==
    CASE x.t \in {"null", "undefined"} -> FALSE
      [] x.t = "bool" -> x.v
      [] x.t = "num" -> x.v # 0
      [] OTHER -> TRUE

\* the value counts as true in a condition
Truthy(x) ==
    CASE x.t \in {"null", "undefined"} -> FALSE
      [] x.t = "bool" -> x.v
      [] x.t = "num" -> x.v # 0
      [] x.t = "str" -> x.v # <<>>
      [] OTHER -> TRUE

validateCheck(chk, envName, ext, index) ==
    LET PREDEFINED_PARSERS == <<"ruff", "ty", "eslint", "tsc", "prettier", "biome",
                                "generic", "jsonl", "gcc">>
        prefix == <<"environments", "[">> \o envName \o <<"]", ".checks", "[">> \o ext
                  \o <<"]", "[", index, "]">>
        err(field, message) == << [path |-> prefix \o field, message |-> message] >>
        name == Get(chk, "name")
        command == Get(chk, "command")
        args == Get(chk, "args")
        parser == Get(chk, "parser")
        pattern == Get(parser, "pattern")
        severity == Get(parser, "severity")
        maxDiagnostics == Get(chk, "maxDiagnostics")
        auto == Get(chk, "_auto")
        \* new RegExp(pattern) does not throw
        compiles == \A k \in 1..Len(pattern.v) :
                        pattern.v[k] = "("
                            => \E j \in (k + 1)..Len(pattern.v) : pattern.v[j] = ")"
        hasFileArg == \E j \in 1..Len(args.v) :
                          args.v[j].t = "str" /\ Includes(args.v[j].v, <<FileToken>>)
        parserErrors ==
            CASE parser.t \in {"undefined", "null"} -> <<>>
              [] parser.t = "str" ->
                    IF \E k \in 1..Len(PREDEFINED_PARSERS) :
                          parser.v = <<PREDEFINED_PARSERS[k]>>
                    THEN <<>>
                    ELSE err(<<".parser">>,
                             <<"unknown parser ">> \o parser.v \o <<". Valid: ">>
                             \o Join([k \in 1..Len(PREDEFINED_PARSERS) |->
                                         <<PREDEFINED_PARSERS[k]>>], ", "))
              [] parser.t \in {"arr", "obj", "map"} ->
                    (IF ~Truthy(pattern) \/ pattern.t # "str"
                     THEN err(<<".parser", ".pattern">>,
                              <<"required string for custom parser">>)
                     ELSE IF ~compiles
                     THEN err(<<".parser", ".pattern">>, <<"invalid regex">>)
                     ELSE <<>>)
                    \o (IF Truthy(severity)
                           /\ ~(severity.t = "str"
                                /\ severity.v \in {<<"error">>, <<"warning">>})
                        THEN err(<<".parser", ".severity">>,
                                 <<"must be error or warning">>)
                        ELSE <<>>)
              [] OTHER -> err(<<".parser">>, <<"must be string or object">>)
        \* typeof null is "object": reading chk.parser.pattern throws
        threw == parser.t = "null"
    IN IF ~Truthy(chk) \/ chk.t \notin {"arr", "obj", "map"}
       THEN [errors |-> << [path |-> prefix, message |-> <<"must be an object">>] >>,
             threw |-> FALSE]
       ELSE [errors |->
                IF threw THEN <<>>
                ELSE (IF ~Truthy(name) \/ name.t # "str"
                      THEN err(<<".name">>, <<"required string">>) ELSE <<>>)
                  \o (IF ~Truthy(command) \/ command.t # "str"
                      THEN err(<<".command">>, <<"required string">>) ELSE <<>>)
                  \o (IF ~Truthy(args) \/ args.t # "arr"
                      THEN err(<<".args">>, <<"required array">>)
                      ELSE IF ~hasFileArg
                      THEN err(<<".args">>, <<"should contain ", FileToken, " placeholder">>)
                      ELSE <<>>)
                  \o parserErrors
                  \o (IF maxDiagnostics.t # "undefined"
                         /\ (maxDiagnostics.t # "num" \/ maxDiagnostics.v < 1)
                      THEN err(<<".maxDiagnostics">>, <<"must be positive integer">>)
                      ELSE <<>>)
                  \o (IF auto.t \notin {"undefined", "bool"}
                      THEN err(<<"._auto">>, <<"must be boolean">>) ELSE <<>>),
             threw |-> threw]

\* checks is read as its entries [key, value]; the inputs hold no object
\* of another shape in this place
validateChecks(checks, envName) ==
    LET at == <<"environments", "[">> \o envName \o <<"]", ".checks">>
        entries == IF checks.t = "map" THEN checks.v ELSE <<>>
        indexes == <<"0", "1", "2", "3">>
        extensions(k) == Split(entries[k].key, ",")
        keyErrors(k) ==
            LET acc[j \in 0..Len(extensions(k))] ==
                    IF j = 0 THEN <<>>
                    ELSE acc[j - 1] \o
                         (IF StartsWith(Trim(extensions(k)[j]), <<".">>) THEN <<>>
                          ELSE << [path |-> at,
                                   message |-> <<"extension ">> \o Trim(extensions(k)[j])
                                               \o <<" in key ">> \o entries[k].key
                                               \o <<" should start with .">>] >>)
            IN acc[Len(extensions(k))]
        checkList(k) == entries[k].value
        one(k, i) == validateCheck(checkList(k).v[i], envName, entries[k].key, indexes[i])
        listErrors(k) ==
            IF checkList(k).t # "arr"
            THEN << [path |-> at \o <<"[">> \o entries[k].key \o <<"]">>,
                     message |-> <<"must be array">>] >>
            ELSE LET acc[i \in 0..Len(checkList(k).v)] ==
                         IF i = 0 THEN <<>> ELSE acc[i - 1] \o one(k, i).errors
                 IN acc[Len(checkList(k).v)]
        all[k \in 0..Len(entries)] ==
            IF k = 0 THEN <<>> ELSE all[k - 1] \o keyErrors(k) \o listErrors(k)
        threw == \E k \in 1..Len(entries) :
                    /\ checkList(k).t = "arr"
                    /\ \E i \in 1..Len(checkList(k).v) : one(k, i).threw
    IN IF ~Truthy(checks) \/ checks.t \notin {"arr", "obj", "map"}
       THEN [errors |-> << [path |-> at, message |-> <<"required object">>] >>,
             threw |-> FALSE]
       ELSE [errors |-> IF threw THEN <<>> ELSE all[Len(entries)], threw |-> threw]

\* the loop over the environments; names holds, at iteration k, the string
\* names of the objects before it.  env.name is read before env is tested,
\* which throws for null.
validateEnvironmentArray(environments) ==
    LET envs == environments.v
        indexes == <<"0", "1", "2", "3">>
        isObject(x) == Truthy(x) /\ x.t \in {"arr", "obj", "map"}
        nameOf(k) == Get(envs[k], "name")
        names(k) == {nameOf(j).v : j \in {j \in 1..(k - 1) :
                                            isObject(envs[j]) /\ nameOf(j).t = "str"}}
        envName(k) == IF ~Truthy(nameOf(k)) THEN <<"[", indexes[k], "]">>
                      ELSE IF nameOf(k).t = "str" THEN nameOf(k).v
                      ELSE IF nameOf(k).t = "num" THEN <<Digits[nameOf(k).v]>>
                      ELSE <<"true">>
        at(k, field) == <<"environments", "[">> \o envName(k) \o <<"]">> \o field
        strings(k, field, list) ==
            LET acc[j \in 0..Len(list)] ==
                    IF j = 0 THEN <<>>
                    ELSE acc[j - 1] \o
                         (IF list[j].t # "str"
                          THEN << [path |-> at(k, <<field, "[", indexes[j], "]">>),
                                   message |-> <<"must be string">>] >>
                          ELSE <<>>)
            IN acc[Len(list)]
        paths(k) == Get(envs[k], "paths")
        exclude(k) == Get(envs[k], "exclude")
        agents(k) == Get(envs[k], "agents")
        checks(k) == validateChecks(Get(envs[k], "checks"), envName(k))
        agentErrors(k) ==
            IF agents(k).t \notin {"arr", "obj", "map"}
            THEN << [path |-> at(k, <<".agents">>), message |-> <<"must be an object">>] >>
            ELSE LET entries == IF agents(k).t = "map" THEN agents(k).v ELSE <<>>
                     acc[j \in 0..Len(entries)] ==
                         IF j = 0 THEN <<>>
                         ELSE acc[j - 1]
                              \o (IF \A p \in 1..Len(Split(entries[j].key, ",")) :
                                        StartsWith(Trim(Split(entries[j].key, ",")[p]), <<".">>)
                                  THEN <<>>
                                  ELSE << [path |-> at(k, <<".agents">>),
                                           message |-> <<"extension in key ">>
                                                       \o entries[j].key
                                                       \o <<" should start with .">>] >>)
                              \o (IF entries[j].value.t # "str"
                                     \/ Trim(entries[j].value.v) = <<>>
                                  THEN << [path |-> at(k, <<".agents", "[">>
                                                         \o entries[j].key \o <<"]">>),
                                           message |-> <<"agent name must be a non-empty string">>] >>
                                  ELSE <<>>)
                 IN acc[Len(entries)]
        one(k) ==
            IF ~isObject(envs[k])
            THEN << [path |-> <<"environments", "[", indexes[k], "]">>,
                     message |-> <<"must be object">>] >>
            ELSE (IF nameOf(k).t = "undefined" THEN <<>>
                  ELSE IF nameOf(k).t # "str"
                  THEN << [path |-> <<"environments", "[", indexes[k], "]", ".name">>,
                           message |-> <<"must be string">>] >>
                  ELSE IF nameOf(k).v \in names(k)
                  THEN << [path |-> <<"environments", "[", indexes[k], "]", ".name">>,
                           message |-> <<"duplicate name ">> \o nameOf(k).v] >>
                  ELSE <<>>)
              \o (IF ~Truthy(paths(k)) \/ paths(k).t # "arr"
                  THEN << [path |-> at(k, <<".paths">>), message |-> <<"required array">>] >>
                  ELSE strings(k, ".paths", paths(k).v)
                       \o (IF Len(paths(k).v) = 0
                           THEN << [path |-> at(k, <<".paths">>),
                                    message |-> <<"must have at least one path">>] >>
                           ELSE <<>>))
              \o (IF exclude(k).t = "undefined" THEN <<>>
                  ELSE IF exclude(k).t # "arr"
                  THEN << [path |-> at(k, <<".exclude">>), message |-> <<"must be array">>] >>
                  ELSE strings(k, ".exclude", exclude(k).v))
              \o checks(k).errors
              \o (IF agents(k).t = "undefined" THEN <<>> ELSE agentErrors(k))
        all[k \in 0..Len(envs)] == IF k = 0 THEN <<>> ELSE all[k - 1] \o one(k)
        threw == \E k \in 1..Len(envs) :
                    envs[k].t = "null" \/ (isObject(envs[k]) /\ checks(k).threw)
    IN IF environments.t # "arr"
       THEN [errors |-> << [path |-> <<"environments">>, message |-> <<"must be array">>] >>,
             threw |-> FALSE]
       ELSE [errors |-> IF threw THEN <<>> ELSE all[Len(envs)], threw |-> threw]

validateTaskRule(rule, index) ==
    LET prefix == <<"tasks", "[", index, "]">>
        err(field, message) == << [path |-> prefix \o <<field>>, message |-> message] >>
        name == Get(rule, "name")
        matchField == Get(rule, "match")
        action == Get(rule, "action")
        message == Get(rule, "message")
        validActions == {<<"skip">>, <<"message">>, <<"review">>}
        is(a) == action.t = "str" /\ action.v = <<a>>
    IN IF ~Truthy(rule) \/ rule.t \notin {"arr", "obj", "map"}
       THEN << [path |-> prefix, message |-> <<"must be an object">>] >>
       ELSE (IF ~Truthy(name) \/ name.t # "str"
             THEN err(".name", <<"required string">>) ELSE <<>>)
         \o (IF ~Truthy(matchField) \/ matchField.t # "str"
             THEN err(".match", <<"required string">>) ELSE <<>>)
         \o (IF ~Truthy(action) \/ action.t # "str"
             THEN err(".action", <<"required string (skip|message|review)">>)
             ELSE IF action.v \notin validActions
             THEN err(".action", <<"must be one of: skip, message, review">>)
             ELSE <<>>)
         \o (IF (is("message") \/ is("review"))
                /\ (~Truthy(message) \/ message.t # "str")
             THEN err(".message", <<"required string for action ">> \o action.v)
             ELSE <<>>)
         \o (IF is("skip") /\ message.t # "undefined"
             THEN err(".message", <<"should not be present for action skip">>)
             ELSE <<>>)

\* validateConfig with validateTasksArray and
\* validateSkipDuringGitOperations; cfg is the parsed document
validateConfig(cfg) ==
    LET environments == Get(cfg, "environments")
        tasks == Get(cfg, "tasks")
        git == Get(cfg, "git")
        indexes == <<"0", "1", "2", "3">>
        validOps == {<<"rebase">>, <<"bisect">>, <<"merge">>, <<"cherryPick">>,
                     <<"revert">>, <<"am">>}
        only(path, message) ==
            [errors |-> << [path |-> path, message |-> message] >>,
             warnings |-> <<>>, threw |-> FALSE]
        envResult == validateEnvironmentArray(environments)
        taskErrors ==
            IF tasks.t = "undefined" THEN <<>>
            ELSE IF tasks.t # "arr"
            THEN << [path |-> <<"tasks">>, message |-> <<"must be array">>] >>
            ELSE LET acc[i \in 0..Len(tasks.v)] ==
                         IF i = 0 THEN <<>>
                         ELSE acc[i - 1] \o validateTaskRule(tasks.v[i], indexes[i])
                 IN acc[Len(tasks.v)]
        gitErrors ==
            IF git.t = "undefined" THEN <<>>
            ELSE IF git.t \notin {"arr", "obj", "map"}
            THEN << [path |-> <<"git">>, message |-> <<"must be an object">>] >>
            ELSE LET entries == IF git.t = "map" THEN git.v ELSE <<>>
                     acc[i \in 0..Len(entries)] ==
                         IF i = 0 THEN <<>>
                         ELSE acc[i - 1]
                              \o (IF entries[i].key \notin validOps
                                  THEN << [path |-> <<"git", ".">> \o entries[i].key,
                                           message |-> <<"unknown git operation">>] >>
                                  ELSE <<>>)
                              \o (IF entries[i].value.t # "bool"
                                  THEN << [path |-> <<"git", ".">> \o entries[i].key,
                                           message |-> <<"must be a boolean">>] >>
                                  ELSE <<>>)
                 IN acc[Len(entries)]
    IN IF ~Truthy(cfg) \/ cfg.t \notin {"arr", "obj", "map"}
       THEN only(<<"config">>, <<"must be object">>)
       ELSE IF ~Truthy(environments)
       THEN only(<<"config">>, <<"must have 'environments' array">>)
       ELSE IF environments.t # "arr"
       THEN only(<<"environments">>, <<"must be array">>)
       ELSE IF envResult.threw
       THEN [errors |-> <<>>, warnings |-> <<>>, threw |-> TRUE]
       ELSE [errors |-> envResult.errors \o taskErrors \o gitErrors,
             warnings |-> <<>>, threw |-> FALSE]

\* ---------------------------------------------------------------------
\* Specification of the validator: one call of validateConfig on a parsed
\* document.  The documents are lists of up to MaxValidateEnvs
\* environments, each sound or unsound in one place, and documents with one
\* sound environment and a tasks or git entry.
\* ---------------------------------------------------------------------
ValidateConfig ==
    /\ pc = "validate"
    /\ validation' = Some(validateConfig(config))
    /\ pc' = IF validateConfig(config).threw THEN "threw" ELSE "validated"
    /\ UNCHANGED <<excludePattern, excluded, input, match, config, filePath,
                   checkResult, check, tool, spawned, parserCalls, checkDiagnostics,
                   world, idx, results, diagnostics, hasFailures, hostOutput>>

SpecValidate ==
    /\ LET null == [t |-> "null"]
           num(n) == [t |-> "num", v |-> n]
           bool(b) == [t |-> "bool", v |-> b]
           str(s) == [t |-> "str", v |-> s]
           arr(l) == [t |-> "arr", v |-> l]
           obj(r) == [t |-> "obj", v |-> r]
           map(l) == [t |-> "map", v |-> l]
           okArgs == arr(<< str(<<"-", "c">>), str(<<FileToken>>) >>)
           base == [name |-> str(<<"r">>), command |-> str(<<"r">>), args |-> okArgs]
           okCheck == obj(base)
           checkOptions ==
               { okCheck, null, num(3),
                 obj([name |-> str(<<"r">>), command |-> str(<<"r">>)]),
                 obj([name |-> str(<<>>), command |-> num(1), args |-> okArgs]) }
               \cup { obj([base EXCEPT !.args = a]) :
                        a \in { arr(<< str(<<"-", "i", "=", FileToken>>) >>),
                                arr(<< str(<<"-", "x">>) >>),
                                arr(<< num(1), str(<<"x">>) >>),
                                arr(<<>>) } }
               \cup { obj(base @@ [parser |-> p]) :
                        p \in { str(<<"ruff">>), str(<<"gcc">>), str(<<"nope">>),
                                str(<<>>), null, num(5),
                                obj([pattern |-> str(<<"x">>)]),
                                obj([pattern |-> str(<<"(", "x">>),
                                     severity |-> str(<<"info">>)]) } }
               \cup { obj(base @@ [maxDiagnostics |-> num(0), _auto |-> num(1)]) }
           checksOf(c) == map(<< [key |-> PyExt, value |-> arr(<<c>>)] >>)
           okPaths == arr(<< str(DotPath) >>)
           sound == [paths |-> okPaths, checks |-> checksOf(okCheck)]
           named(n) == sound @@ [name |-> n]
           envOptions ==
               { obj(sound), null, num(7) }
               \cup { obj(named(n)) : n \in { str(<<"A">>), str(<<"B">>), str(<<>>), num(5) } }
               \cup { obj([named(str(<<"A">>)) EXCEPT !.checks = checksOf(c)]) :
                        c \in checkOptions }
               \cup { obj([named(str(<<"A">>)) EXCEPT !.paths = p]) :
                        p \in { arr(<<>>), arr(<< num(1) >>), null } }
               \cup { obj([named(str(<<"A">>)) EXCEPT !.checks = c]) :
                        c \in { null, num(1),
                                map(<< [key |-> <<"p">>, value |-> arr(<<okCheck>>)] >>),
                                map(<< [key |-> BothKey, value |-> okCheck] >>) } }
               \cup { obj([name |-> str(<<"A">>), checks |-> checksOf(okCheck)]) }
               \cup { obj(named(str(<<"A">>)) @@ [exclude |-> x]) :
                        x \in { arr(<< str(GenPattern), num(1) >>), num(1) } }
               \cup { obj(named(str(<<"A">>)) @@ [agents |-> a]) :
                        a \in { null,
                                map(<< [key |-> PyExt, value |-> str(<<"py">>)],
                                       [key |-> <<"t">>, value |-> str(<<" ">>)] >>) } }
           envLists == UNION { [1..n -> envOptions] : n \in 0..MaxValidateEnvs }
           rule == [name |-> str(<<"n">>), match |-> str(<<"a">>)]
           ruleOptions ==
               { null, num(1) }
               \cup { obj(rule @@ r) :
                        r \in { <<>> }
                              \cup { [action |-> a] :
                                       a \in { str(<<"skip">>), str(<<"message">>),
                                               str(<<"review">>), str(<<"bad">>), num(1) } }
                              \cup { [action |-> str(<<a>>), message |-> m] :
                                       a \in { "skip", "message", "review", "bad" },
                                       m \in { str(<<>>), str(<<"m">>), num(5), null } } }
           withOne == [environments |-> arr(<< obj(named(str(<<"A">>))) >>)]
           documents ==
               { obj([environments |-> arr(l)]) : l \in envLists }
               \cup { obj(withOne @@ [tasks |-> arr(<<r>>)]) : r \in ruleOptions }
               \cup { obj(withOne @@ [tasks |-> t]) :
                        t \in { num(1), null,
                                arr(<< obj(rule @@ [action |-> str(<<"skip">>)]),
                                       obj(rule @@ [action |-> str(<<"review">>)]) >>) } }
               \cup { obj(withOne @@ [git |-> g]) :
                        g \in { null, num(1),
                                map(<< [key |-> <<"rebase">>, value |-> bool(TRUE)],
                                       [key |-> <<"foo">>, value |-> num(1)] >>) } }
               \cup { null, num(1), str(<<"x">>), arr(<<>>), obj(<<>>),
                      obj([environments |-> null]),
                      obj([environments |-> str(<<"x">>)]),
                      obj([tasks |-> arr(<<>>)]) }
       IN config \in documents
    /\ pc = "validate"
    /\ validation = None
    /\ filePath = ConfigFile
    /\ checkResult = NoResult
    /\ check = NoCheck
    /\ tool = NoTool
    /\ spawned = <<>>
    /\ parserCalls = <<>>
    /\ checkDiagnostics = <<>>
    /\ world = NoWorld
    /\ idx = 0
    /\ results = <<>>
    /\ diagnostics = <<>>
    /\ hasFailures = FALSE
    /\ hostOutput = <<>>
    /\ input = NoInput
    /\ match = NoMatch
    /\ excludePattern = <<>>
    /\ excluded = FALSE
    /\ [][ValidateConfig]_vars

\* ---------------------------------------------------------------------
\* Pre-tool hook (pre-tool.mjs): delegation of edits to specialist agents.
\* An environment may map extension keys to agent names (agents: None or
\* Some(sequence of [key, agent])).  The transcript is None when the file
\* does not exist, else Some(lines); of a line the hook uses whether it
\* holds the tool use id (mentions), whether it parses as JSON (json) and
\* whether the parsed object has a parentToolUseID (parent).
\* ---------------------------------------------------------------------
\* getAgentForFile with getAgentForExtension: the agent of the first
\* environment that covers the file, does not exclude it and names a
\* non-empty agent for its extension; None for null
getAgentForFile(cfg, file, projectRoot) ==
    LET ext == Extname(file)
        relativePath == Relative(projectRoot, file)
        envs == cfg.environments[1]
        getAgentForExtension(agentsConfig) ==
            IF agentsConfig = None THEN <<>>
            ELSE LET entries == agentsConfig[1]
                     listed == {j \in 1..Len(entries) :
                                  \E p \in 1..Len(Split(entries[j].key, ",")) :
                                      Trim(Split(entries[j].key, ",")[p]) = ext}
                 IN IF listed = {} THEN <<>> ELSE entries[Min(listed)].agent
        found == {i \in 1..Len(envs) :
                    /\ envs[i].paths # None
                    /\ fileMatchesPaths(relativePath, envs[i].paths[1])
                    /\ envs[i].exclude # None
                          => \A j \in 1..Len(envs[i].exclude[1]) :
                                ~matchesExcludePattern(relativePath, envs[i].exclude[1][j])
                    /\ getAgentForExtension(envs[i].agents) # <<>>}
    IN IF cfg.environments = None THEN None
       ELSE IF found = {} THEN None
       ELSE Some(getAgentForExtension(envs[Min(found)].agents))

\* isMainConversation: the scan stops at the first line that holds the
\* tool use id; parentToolUseID stays null when that line does not parse
isMainConversation(toolUseId, transcriptPath, w) ==
    IF toolUseId = None \/ transcriptPath = None \/ w.transcript = None
    THEN FALSE
    ELSE LET lines == w.transcript[1]
             hits == {i \in 1..Len(lines) : lines[i].mentions}
         IN hits = {} \/ ~(lines[Min(hits)].json /\ lines[Min(hits)].parent)

\* run() of the pre-tool hook: the first pass() that applies ends the
\* process, deny() is reached when none does
PreTool ==
    /\ pc = "start"
    /\ LET loaded == loadConfig(world, config)
           requiredAgent == getAgentForFile(loaded.config[1], filePath,
                                            loaded.projectRoot[1])
           gitOp == detectGitOperation(world)
           isMain == isMainConversation(input.tool_use_id, input.transcript_path, world)
           passed(message) == hostOutput' = Append(hostOutput, PassOutput(message))
       IN IF readStdinJson(world, input) = None
          THEN pc' = "crashed" /\ UNCHANGED hostOutput
          ELSE /\ pc' = "exited"
               /\ IF input.tool_name \notin {"Edit", "Write"}
                  THEN passed(<<"non-file tool">>)
                  ELSE IF filePath = <<>>
                  THEN passed(<<"no file path">>)
                  ELSE IF loaded.projectRoot = None \/ loaded.config = None
                  THEN passed(<<"no config">>)
                  ELSE IF requiredAgent = None
                  THEN passed(<<"no agent mapping">>)
                  ELSE IF gitOp # "none"
                  THEN passed(<<"git ", gitOp, " in progress">>)
                  ELSE IF ~isMain
                  THEN passed(<<"subagent context">>)
                  ELSE hostOutput' =
                          Append(hostOutput,
                                 [hookSpecificOutput |->
                                     [hookEventName |-> "PreToolUse",
                                      permissionDecision |-> "deny",
                                      permissionDecisionReason |->
                                          <<"Use ">> \o requiredAgent[1]
                                          \o <<" to modify ">> \o Extname(filePath)
                                          \o <<" files.">>]])
    /\ UNCHANGED <<validation, excludePattern, excluded, input, match, config, filePath,
                   checkResult, check, tool, spawned, parserCalls, checkDiagnostics,
                   world, idx, results, diagnostics, hasFailures>>

\* ---------------------------------------------------------------------
\* Specification of one pre-tool invocation
\* ---------------------------------------------------------------------
SpecPreTool ==
    /\ LET agentOptions ==
               { None,
                 Some(<< [key |-> BothKey, agent |-> <<"e", "n", "g">>] >>),
                 Some(<< [key |-> PyExt, agent |-> <<>>],
                         [key |-> TsExt, agent |-> <<"t", "s">>] >>) }
           envOptions ==
               { [name |-> <<"A">>, paths |-> p, exclude |-> x, checks |-> None,
                  agents |-> a] :
                   p \in {Some(<<ApiPath>>), Some(<<DotPath>>)},
                   x \in {None, Some(<<GenPattern>>)},
                   a \in agentOptions }
           line(m, j, p) == [mentions |-> m, json |-> j, parent |-> p]
           transcripts ==
               { None, Some(<<>>),
                 Some(<< line(FALSE, TRUE, FALSE) >>),
                 Some(<< line(TRUE, TRUE, FALSE) >>),
                 Some(<< line(TRUE, TRUE, TRUE) >>),
                 Some(<< line(TRUE, FALSE, FALSE) >>),
                 Some(<< line(FALSE, TRUE, TRUE), line(TRUE, TRUE, TRUE) >>),
                 Some(<< line(TRUE, TRUE, FALSE), line(TRUE, TRUE, TRUE) >>) }
           envLists ==
               { <<e>> : e \in envOptions } \cup
               { <<e, f>> : e \in {o \in envOptions : o.paths = Some(<<ApiPath>>)},
                            f \in {o \in envOptions :
                                      o.paths = Some(<<DotPath>>) /\ o.exclude = None} }
       IN /\ config \in { [environments |-> Some(l), git |-> None] : l \in envLists }
          /\ input \in { [tool_name |-> t, tool_use_id |-> i, transcript_path |-> p] :
                           t \in {"Edit", "Write", "Bash"},
                           i \in {None, Some("toolu_1")},
                           p \in {None, Some("transcript.jsonl")} }
          /\ world \in { [stdin |-> sj, fileExists |-> TRUE, projectRoot |-> pr,
                          configFile |-> cf, hasGit |-> g.hasGit,
                          gitMarkers |-> g.gitMarkers, toolBehaviours |-> {},
                          transcript |-> tr] :
                           sj \in {"event", "garbage"},
                           pr \in {None, Some(Root)},
                           cf \in {"missing", "valid"},
                           g \in { [hasGit |-> FALSE, gitMarkers |-> {}],
                                   [hasGit |-> TRUE, gitMarkers |-> {"rebase-merge"}],
                                   [hasGit |-> TRUE, gitMarkers |-> {"MERGE_HEAD"}] },
                           tr \in transcripts }
          /\ world.stdin = "garbage"
                => /\ input.tool_name = "Bash"
                   /\ world.transcript = None
                   /\ world.projectRoot = None
                   /\ Len(config.environments[1]) = 1
    /\ filePath \in {<<>>, ApiPyFile, ApiGenFile, RootTsFile}
    /\ world.stdin = "garbage" => filePath = <<>>
    /\ pc = "start"
    /\ validation = None
    /\ checkResult = NoResult
    /\ check = NoCheck
    /\ tool = NoTool
    /\ spawned = <<>>
    /\ parserCalls = <<>>
    /\ checkDiagnostics = <<>>
    /\ idx = 0
    /\ results = <<>>
    /\ diagnostics = <<>>
    /\ hasFailures = FALSE
    /\ hostOutput = <<>>
    /\ match = NoMatch
    /\ excludePattern = <<>>
    /\ excluded = FALSE
    /\ [][PreTool]_vars

\* =====================================================================
\* Properties of the environment resolver (checked under SpecResolve)
\* =====================================================================
Envs == config.environments[1]
RelPath == Relative(Root, filePath)
FileExt == Extname(filePath)

Resolved == pc = "resolved" /\ config.environments # None

Covers(i) == Envs[i].paths # None /\ fileMatchesPaths(RelPath, Envs[i].paths[1])

Excludes(i) ==
    /\ Envs[i].exclude # None
    /\ \E j \in 1..Len(Envs[i].exclude[1]) :
          matchesExcludePattern(RelPath, Envs[i].exclude[1][j])

ChecksOf(i) == getChecksForExtension(Envs[i].checks, FileExt)

HasCovering == \E i \in 1..Len(Envs) : Covers(i)

FirstCovering == Min({i \in 1..Len(Envs) : Covers(i)})

\* a covering environment the scan passes over: it excludes the path and
\* has no checks for the extension
PassedOver(i) == Covers(i) /\ Excludes(i) /\ Len(ChecksOf(i)) = 0

Decisive(i) == Covers(i) /\ ~PassedOver(i)

\* C1 as stated: whatever checks getChecksForFile returns are those of the
\* first environment (in declaration order) whose paths cover the file,
\* never those of a later environment.
C1_FirstCoveringWins ==
    (Resolved /\ HasCovering /\ checkResult.checks # <<>>)
        => checkResult.checks = ChecksOf(FirstCovering)

\* C1 amended: the result is that of the first covering environment that
\* is not passed over (a covering environment is passed over exactly when
\* it excludes the file and has no checks for its extension); no later
\* environment contributes, and with no such environment the result is
\* empty with reason "no-matching-environment".
C1_FirstDecisiveWins ==
    Resolved =>
        IF \E i \in 1..Len(Envs) : Decisive(i)
        THEN LET k == Min({i \in 1..Len(Envs) : Decisive(i)})
             IN /\ checkResult.checks = (IF Excludes(k) THEN <<>> ELSE ChecksOf(k))
                /\ checkResult.reason =
                      (IF Excludes(k) THEN "path-excluded"
                       ELSE IF Len(ChecksOf(k)) > 0 THEN "ok"
                       ELSE "no-checks-for-extension")
        ELSE checkResult.checks = <<>> /\ checkResult.reason = "no-matching-environment"

\* C1 witness: two environments cover the file and both define (different)
\* checks for its extension; the first one's checks are returned.
C1_Witness ==
    /\ Resolved
    /\ Len(Envs) = 2
    /\ Covers(1) /\ Covers(2)
    /\ ~Excludes(1) /\ ~Excludes(2)
    /\ Len(ChecksOf(1)) > 0 /\ Len(ChecksOf(2)) > 0
    /\ ChecksOf(1) # ChecksOf(2)
    /\ checkResult.checks = ChecksOf(1)

\* C2: when the first covering environment excludes the path and defines
\* checks for the extension, the result is empty with reason
\* "path-excluded", names that environment and carries one of its exclude
\* patterns that matches the path; a later environment's checks are never
\* returned.
C2_ExcludedWithChecksStops ==
    (Resolved /\ HasCovering /\ Excludes(FirstCovering)
              /\ Len(ChecksOf(FirstCovering)) > 0)
        => /\ checkResult.checks = <<>>
           /\ checkResult.reason = "path-excluded"
           /\ checkResult.env = Envs[FirstCovering].name
           /\ \E j \in 1..Len(Envs[FirstCovering].exclude[1]) :
                 /\ checkResult.pattern = Envs[FirstCovering].exclude[1][j]
                 /\ matchesExcludePattern(RelPath, checkResult.pattern)

\* C2 witness: services/api/foo.gen.py with environment A (services/api,
\* excluding the path, with .py checks) before a covering environment B
\* that also has checks for the extension.
C2_Witness ==
    /\ Resolved
    /\ filePath = ApiGenFile
    /\ Len(Envs) = 2
    /\ Envs[1].paths = Some(<<ApiPath>>)
    /\ Excludes(1) /\ Len(ChecksOf(1)) > 0
    /\ Covers(2) /\ ~Excludes(2) /\ Len(ChecksOf(2)) > 0
    /\ checkResult.reason = "path-excluded"
    /\ checkResult.pattern = GenPattern

\* C3: when the first covering environment excludes the path but has no
\* checks for the extension, the scan goes on; the next covering
\* environment that is not itself passed over, if it does not exclude the
\* path and has checks for the extension, supplies the result.
C3_ExcludedWithoutChecksContinues ==
    Resolved =>
        \A i, k \in 1..Len(Envs) :
            ( /\ i < k
              /\ HasCovering /\ i = FirstCovering /\ PassedOver(i)
              /\ \A j \in (i + 1)..(k - 1) : ~Covers(j) \/ PassedOver(j)
              /\ Covers(k) /\ ~Excludes(k) /\ Len(ChecksOf(k)) > 0 )
            => /\ checkResult.checks = ChecksOf(k)
               /\ checkResult.reason = "ok"

\* C3 witness: the first environment covers and excludes services/api/f.t
\* but has only .py checks; the second one covers it and has .t checks.
C3_Witness ==
    /\ Resolved
    /\ filePath = ApiTsFile
    /\ Len(Envs) = 2
    /\ PassedOver(1)
    /\ Covers(2) /\ ~Excludes(2) /\ Len(ChecksOf(2)) > 0
    /\ checkResult.reason = "ok"
    /\ checkResult.checks = ChecksOf(2)

\* C4: a first covering environment that does not exclude the file and has
\* no checks for the extension ends the scan with an empty list and reason
\* "no-checks-for-extension"; no covering environment gives
\* "no-matching-environment"; no environments array gives "no-config".
C4_ReasonsWithoutChecks ==
    pc = "resolved" =>
        /\ config.environments = None
              => checkResult = [checks |-> <<>>, reason |-> "no-config"]
        /\ (config.environments # None /\ ~HasCovering)
              => checkResult = [checks |-> <<>>, reason |-> "no-matching-environment"]
        /\ (config.environments # None /\ HasCovering
              /\ ~Excludes(FirstCovering) /\ Len(ChecksOf(FirstCovering)) = 0)
              => checkResult = [checks |-> <<>>, reason |-> "no-checks-for-extension"]

\* C4 witness: the first covering environment has no checks for the
\* extension, a later covering environment has some, and the scan stopped
\* at the first.
C4_Witness ==
    /\ Resolved
    /\ Len(Envs) = 2
    /\ Covers(1) /\ ~Excludes(1) /\ Len(ChecksOf(1)) = 0
    /\ Covers(2) /\ ~Excludes(2) /\ Len(ChecksOf(2)) > 0
    /\ checkResult.reason = "no-checks-for-extension"

\* the configuration of C5: an environment for services/api declared
\* before a catch-all environment for ".", and a file under services/api
ShadowScenario ==
    /\ Resolved
    /\ Len(Envs) = 2
    /\ Envs[1].paths = Some(<<ApiPath>>)
    /\ Envs[2].paths = Some(<<DotPath>>)
    /\ StartsWith(RelPath, ApiPath \o <<"/">>)

\* C5 as stated (no excludes involved): a file whose extension has checks
\* in the first environment gets exactly those; a file whose extension has
\* none there gets the catch-all environment's checks for the extension.
C5_FallsThroughByExtension ==
    (ShadowScenario /\ Envs[1].exclude = None /\ Envs[2].exclude = None)
        => /\ Len(ChecksOf(1)) > 0 => checkResult.checks = ChecksOf(1)
           /\ Len(ChecksOf(1)) = 0 => checkResult.checks = ChecksOf(2)

\* C5 amended: a file the first environment does not exclude gets the
\* first environment's checks when it has some for the extension and
\* otherwise an empty list with reason "no-checks-for-extension"; only a
\* file the first environment excludes, with no checks there for its
\* extension, falls through to the catch-all environment.
C5_ShadowsCatchAll ==
    ShadowScenario =>
        /\ (~Excludes(1) /\ Len(ChecksOf(1)) > 0)
              => checkResult = [checks |-> ChecksOf(1), reason |-> "ok"]
        /\ (~Excludes(1) /\ Len(ChecksOf(1)) = 0)
              => checkResult = [checks |-> <<>>, reason |-> "no-checks-for-extension"]
        /\ (Excludes(1) /\ Len(ChecksOf(1)) = 0 /\ ~Excludes(2))
              => checkResult.checks = ChecksOf(2)

\* C5 witness: services/api/f.t, the first environment has only .py checks
\* and no exclude, the catch-all has .t checks, and no check is returned.
C5_Witness ==
    /\ ShadowScenario
    /\ filePath = ApiTsFile
    /\ Envs[1].exclude = None
    /\ Len(ChecksOf(1)) = 0
    /\ ~Excludes(2) /\ Len(ChecksOf(2)) > 0
    /\ checkResult = [checks |-> <<>>, reason |-> "no-checks-for-extension"]

\* =====================================================================
\* Properties of the check executor (checked under SpecCheck)
\* =====================================================================
Combined == tool.stdout \o tool.stderr

\* the process ran and exited with a non-zero status
Failed == pc = "checked" /\ tool.exists /\ tool.status # 0

\* what the configured parser makes of the combined output
Parsed == Parse(getParser(check.parser), Combined)

\* the cap in force: maxDiagnostics when configured, else 5
CapInForce ==
    IF check.maxDiagnostics = None THEN 5 ELSE check.maxDiagnostics[1]

NewlinesIn(text) == Cardinality({i \in 1..Len(text) : text[i] = "\n"})

\* text is the first n lines of whole
IsFirstLines(text, whole, n) ==
    /\ StartsWith(whole, text)
    /\ NewlinesIn(text) <= n - 1
    /\ \/ text = whole
       \/ NewlinesIn(text) = n - 1 /\ whole[Len(text) + 1] = "\n"

\* C7: a process that exits with status 0 yields no diagnostics whatever
\* it wrote, and its output is not handed to any parser.
C7_SuccessYieldsNothing ==
    (pc = "checked" /\ tool.exists /\ tool.status = 0)
        => checkDiagnostics = <<>> /\ parserCalls = <<>>

\* C7 witness: exit status 0 with output the configured parser would turn
\* into diagnostics.
C7_Witness ==
    /\ pc = "checked" /\ tool.exists /\ tool.status = 0
    /\ Len(Parsed) >= 2
    /\ ~IsNotFoundOutput(Combined)
    /\ checkDiagnostics = <<>>

\* C8: when the parser yields n >= 1 diagnostics for a failing check,
\* runCheck returns the first min(n, maxDiagnostics) of them in parser
\* order (maxDiagnostics defaulting to 5), each with the check's name as
\* source.
C8_CappedInOrder ==
    (Failed /\ ~IsNotFoundOutput(Combined) /\ Len(Parsed) >= 1)
        => /\ Len(checkDiagnostics) =
                 (IF Len(Parsed) < CapInForce THEN Len(Parsed) ELSE CapInForce)
           /\ \A k \in 1..Len(checkDiagnostics) :
                 /\ checkDiagnostics[k].source = check.name
                 /\ \A f \in DOMAIN Parsed[k] : checkDiagnostics[k][f] = Parsed[k][f]

\* C8 witness: maxDiagnostics 2 against five matchable lines returns the
\* diagnostics of lines 1 and 2.
C8_Witness ==
    /\ Failed
    /\ check.maxDiagnostics = Some(2)
    /\ check.parser = ParserNamed("ruff")
    /\ Len(Parsed) = 5
    /\ Len(checkDiagnostics) = 2
    /\ checkDiagnostics[1].line = 1
    /\ checkDiagnostics[2].line = 2

C10_FallbackDiagnostic ==
    (Failed /\ ~IsNotFoundOutput(Combined) /\ Len(Parsed) = 0)
        => /\ Len(checkDiagnostics) = 1
           /\ DOMAIN checkDiagnostics[1] = {"message", "source", "severity"}
           /\ checkDiagnostics[1].severity = "error"
           /\ checkDiagnostics[1].source = check.name
           /\ IsFirstLines(checkDiagnostics[1].message, Combined, 3)

\* C10 witness: more than three unparseable lines, of which the message
\* keeps three.
C10_Witness ==
    /\ Failed
    /\ Len(Parsed) = 0
    /\ NewlinesIn(Combined) >= 4
    /\ Len(checkDiagnostics) = 1
    /\ NewlinesIn(checkDiagnostics[1].message) = 2

\* =====================================================================
\* Properties of the post-tool run (checked under SpecRun)
\* =====================================================================
Exited == pc = "exited"

LastOutput == hostOutput[Len(hostOutput)]

Blocked == Exited /\ "decision" \in DOMAIN LastOutput

\* d is the warning runCheck returns for a command that is not installed
IsMissingToolWarning(d) ==
    /\ d.severity = "warning"
    /\ Includes(d.message, <<"not found", " ", "-", " ", "skipping">>)

\* C6: a check whose command is not on the path yields one warning naming
\* the tool, and a run whose only diagnostics are such warnings ends with
\* a pass, not a block.
C6_MissingToolDoesNotBlock ==
    /\ (idx > 1 /\ ~tool.exists)
          => /\ Len(checkDiagnostics) = 1
             /\ IsMissingToolWarning(checkDiagnostics[1])
             /\ StartsWith(checkDiagnostics[1].message, check.command)
    /\ (Exited /\ diagnostics # <<>>
               /\ \A k \in 1..Len(diagnostics) : IsMissingToolWarning(diagnostics[k]))
          => ~Blocked

\* the checks the resolver returned, and how many of them have returned
Checks == checkResult.checks

ChecksDone == idx - 1

\* the diagnostics of checks 1..n, one after the other, when the command of
\* check k behaves as ts[k]
RECURSIVE DiagnosticsOf(_, _)
DiagnosticsOf(ts, n) ==
    IF n = 0 THEN <<>>
    ELSE DiagnosticsOf(ts, n - 1) \o runCheck(Checks[n], filePath, ts[n]).diagnostics

\* the diagnostics the self-check adds at the end of the run
SelfCheckDiagnostics ==
    IF Exited /\ isConfigFile(filePath) /\ ~validateConfigFile(world).valid
    THEN SchemaDiagnostics(validateConfigFile(world).errors)
    ELSE <<>>

\* C11: in one run every check the resolver returned is executed exactly
\* once and in declaration order, whatever the earlier checks reported, and
\* the aggregated diagnostics are the per-check diagnostics concatenated in
\* that order.
C11_EveryCheckOnceInOrder ==
    checkResult # NoResult =>
        /\ ChecksDone \in 0..Len(Checks)
        /\ Exited => ChecksDone = Len(Checks)
        /\ Len(results) >= ChecksDone
        /\ Len(results) > ChecksDone => Exited /\ isConfigFile(filePath)
        /\ \E ts \in [1..ChecksDone -> world.toolBehaviours] :
              /\ \A k \in 1..ChecksDone :
                    results[k] =
                        [name |-> Checks[k].name,
                         passed |-> runCheck(Checks[k], filePath, ts[k]).diagnostics = <<>>]
              /\ diagnostics = DiagnosticsOf(ts, ChecksDone) \o SelfCheckDiagnostics

\* a run of two checks in which the first already reported diagnostics and
\* the second ran and reported its own after them
C11_Witness ==
    /\ Exited
    /\ checkResult # NoResult
    /\ Len(Checks) = 2
    /\ Len(results) = 2
    /\ ~results[1].passed /\ ~results[2].passed
    /\ Len(diagnostics) = 3
    /\ diagnostics[1].source = Checks[1].name
    /\ diagnostics[2].source = Checks[1].name
    /\ diagnostics[3].source = Checks[2].name
    /\ Checks[1].name # Checks[2].name

\* the run got as far as loading the configuration and no git operation
\* suspends the checks
ConfigConsulted ==
    /\ filePath # <<>>
    /\ world.fileExists
    /\ world.projectRoot # None
    /\ detectGitOperation(world) = "none"

\* C12: when the project's configuration file is malformed JSON or violates
\* the schema, the run ends with a block that carries diagnostics, whichever
\* file was edited; it never ends with a pass.
C12_InvalidConfigBlocks ==
    (Exited /\ ConfigConsulted /\ world.configFile \in {"malformed", "invalid"})
        => /\ Blocked
           /\ \E k \in 1..Len(diagnostics) : diagnostics[k].source = <<"schema">>

Terminated == pc \in {"exited", "crashed"}

\* C13: every invocation ends having written exactly one outcome for the
\* host, a pass message or a block decision with its reason, and nothing is
\* written before the run ends.
C13_ExactlyOneOutcome ==
    /\ Terminated
          => /\ Len(hostOutput) = 1
             /\ \/ DOMAIN hostOutput[1] = {"systemMessage"}
                \/ DOMAIN hostOutput[1] = {"decision", "reason", "systemMessage"}
    /\ ~Terminated => hostOutput = <<>>

\* =====================================================================
\* Properties of the post-task hook (checked under SpecTask)
\* =====================================================================
\* the run reached the lookup of the rule
LookedUp ==
    /\ Exited
    /\ input.tool_name = "Task"
    /\ input.subagent_type # None /\ input.subagent_type[1] # <<>>
    /\ world.projectRoot # None
    /\ world.configFile = "valid"
    /\ config.tasks # None

Tasks == config.tasks[1]

Identifier == input.subagent_type[1]

\* rules whose match field is the identifier itself
EqualRules == {k \in 1..Len(Tasks) : Tasks[k].match = Some(Identifier)}

\* rules of the form *<suffix> whose suffix ends the identifier
SuffixRules ==
    {k \in 1..Len(Tasks) :
        /\ Tasks[k].match # None
        /\ StartsWith(Tasks[k].match[1], <<"*">>)
        /\ EndsWith(Identifier, Tail(Tasks[k].match[1]))}

\* C14: when some rule's match field equals the identifier exactly, the
\* first such rule is returned, without capture, wherever it stands among
\* the wildcard rules.
C14_ExactMatchWins ==
    (LookedUp /\ EqualRules # {})
        => match = Some([rule |-> Tasks[Min(EqualRules)], capture |-> None])

\* an exact rule declared after a wildcard rule that also matches
C14_Witness ==
    /\ LookedUp
    /\ Len(Tasks) = 2
    /\ 1 \in SuffixRules /\ 1 \notin EqualRules
    /\ 2 \in EqualRules
    /\ match # None
    /\ match[1].rule = Tasks[2]
    /\ match[1].capture = None

\* C15: without an exact match the first rule *<suffix> whose suffix ends
\* the identifier is returned and the capture followed by the suffix is the
\* identifier, for every suffix, the empty one included; null when no rule
\* matches in either pass.
C15_CaptureIsPrefix ==
    (LookedUp /\ EqualRules = {})
        => IF SuffixRules = {} THEN match = None
           ELSE /\ match # None
                /\ match[1].rule = Tasks[Min(SuffixRules)]
                /\ match[1].capture # None
                /\ match[1].capture[1] \o Tail(match[1].rule.match[1]) = Identifier

\* template with every * and every $1 replaced by the capture, in one
\* reading of the template from left to right
RECURSIVE EveryPlaceholderReplaced(_, _)
EveryPlaceholderReplaced(template, capture) ==
    IF template = <<>> THEN <<>>
    ELSE IF StartsWith(template, <<"$", "1">>)
         THEN capture \o EveryPlaceholderReplaced(SubSeq(template, 3, Len(template)), capture)
    ELSE IF template[1] = "*"
         THEN capture \o EveryPlaceholderReplaced(Tail(template), capture)
    ELSE <<template[1]>> \o EveryPlaceholderReplaced(Tail(template), capture)

\* the rule found asks for a review
ReviewFound == LookedUp /\ match # None /\ match[1].rule.action = "review"

\* C16: for a wildcard match the substituted message is the template with
\* every * and every $1 replaced by the captured prefix and nothing else
\* changed; for an exact match it is the template itself.
C16_EveryPlaceholderReplaced ==
    ReviewFound
        => /\ Len(hostOutput) = 1
           /\ hostOutput[1].reason =
                 IF match[1].capture = None THEN MessageOf(match[1].rule)
                 ELSE EveryPlaceholderReplaced(MessageOf(match[1].rule),
                                               match[1].capture[1])

\* no rule of the configuration matches the identifier in either pass
NoRuleMatches == LookedUp /\ EqualRules = {} /\ SuffixRules = {}

\* C17: a matched review rule yields a block whose reason is the rule's
\* message after substitution; a matched skip or message rule never yields
\* a block; without a matching rule, without tasks configuration, for
\* another tool or without subagent identifier nothing is written.
C17_ReviewBlocksOthersDoNot ==
    /\ ReviewFound
          => /\ Len(hostOutput) = 1
             /\ "decision" \in DOMAIN hostOutput[1]
             /\ hostOutput[1].decision = "block"
             /\ hostOutput[1].reason =
                   applySubstitutions(MessageOf(match[1].rule), match[1].capture)
    /\ (LookedUp /\ match # None /\ match[1].rule.action \in {"skip", "message"})
          => \A k \in 1..Len(hostOutput) : "decision" \notin DOMAIN hostOutput[k]
    /\ (Exited /\ (\/ NoRuleMatches
                   \/ config.tasks = None
                   \/ input.tool_name # "Task"
                   \/ input.subagent_type = None))
          => hostOutput = <<>>

\* a wildcard rule asking for a review blocked with its substituted message
C17_Witness ==
    /\ ReviewFound
    /\ match[1].capture = Some(<<"b">>)
    /\ Blocked
    /\ hostOutput[1].reason = <<"b", "-", "r", " ", "b">>

\* =====================================================================
\* Properties of the exclude pattern matcher (checked under SpecGlob)
\* =====================================================================
\* path matches glob read as a glob: ** is any text, * any text without a
\* slash, every other character of the glob is itself
RECURSIVE GlobMatch(_, _)
GlobMatch(glob, path) ==
    IF glob = <<>> THEN path = <<>>
    ELSE IF StartsWith(glob, <<"*", "*">>)
         THEN \E k \in 0..Len(path) :
                 GlobMatch(SubSeq(glob, 3, Len(glob)), SubSeq(path, k + 1, Len(path)))
    ELSE IF glob[1] = "*"
         THEN \E k \in 0..Len(path) :
                 /\ \A i \in 1..k : path[i] # "/"
                 /\ GlobMatch(Tail(glob), SubSeq(path, k + 1, Len(path)))
    ELSE path # <<>> /\ path[1] = glob[1] /\ GlobMatch(Tail(glob), Tail(path))

\* C18: matchesExcludePattern is true exactly when the whole relative path
\* matches the pattern read as a glob (** any characters, * any characters
\* but the slash, every other character itself); the pattern ** matches
\* every non-empty path.
C18_MatchesAsGlob ==
    pc = "matched"
        => /\ excluded = GlobMatch(excludePattern, Relative(Root, filePath))
           /\ excludePattern = <<"*", "*">> => excluded

\* =====================================================================
\* Properties of the argument substitution (checked under SpecCheck)
\* =====================================================================
\* arg with every placeholder token replaced by the file path
RECURSIVE EveryTokenReplaced(_, _)
EveryTokenReplaced(arg, file) ==
    IF arg = <<>> THEN <<>>
    ELSE (IF arg[1] = FileToken THEN file ELSE <<arg[1]>>)
             \o EveryTokenReplaced(Tail(arg), file)

\* C19: the arguments handed to the command are the check's arguments with
\* every $FILE replaced by the file path, several in one argument included;
\* no $FILE is left and arguments without it are handed on unchanged.
C19_EveryFileTokenReplaced ==
    (pc = "checked" /\ spawned # <<>>)
        => /\ Len(spawned[1]) = Len(check.args)
           /\ \A k \in 1..Len(check.args) :
                 /\ spawned[1][k] = EveryTokenReplaced(check.args[k], filePath)
                 /\ ~Includes(spawned[1][k], <<FileToken>>)

\* =====================================================================
\* Properties of the parser selection (checked under SpecCheck)
\* =====================================================================
\* the parser was called: the command failed and its output does not read
\* "not found"
ParserCalled == pc = "checked" /\ parserCalls # <<>>

\* what runCheck returns when the parser it called yields found
Reported(found) ==
    IF Len(found) > 0 THEN CapDiagnostics(found, check)
    ELSE << FallbackDiagnostic(Combined, check) >>

\* the lines holding ":<digit>: ", each reported once with that number and
\* the trimmed line as message
RECURSIVE NumberedLines(_)
NumberedLines(lines) ==
    IF lines = <<>> THEN <<>>
    ELSE LET line == Head(lines)
             at == {i \in 1..Len(line) :
                      /\ i + 3 <= Len(line)
                      /\ line[i] = ":" /\ IsDigit(line[i + 1])
                      /\ line[i + 2] = ":" /\ line[i + 3] = " "}
         IN (IF at # {}
             THEN << [line |-> ParseInt(line[Min(at) + 1]), message |-> Trim(line),
                      severity |-> "warning"] >>
             ELSE <<>>) \o NumberedLines(Tail(lines))

\* C20: getParser always returns a parser: the generic one for an absent
\* entry, the built-in one for a predefined name, a line-by-line regex
\* parser for an object whose pattern compiles, and the generic one for an
\* object whose pattern is not a regular expression.
C20_ParserChosen ==
    ParserCalled =>
        /\ check.parser = None
              => checkDiagnostics = Reported(ParseGeneric(Combined))
        /\ check.parser = ParserNamed("ruff")
              => checkDiagnostics = Reported(ParseRuff(Combined))
        /\ check.parser = ParserNamed("prettier")
              => checkDiagnostics = Reported(ParsePrettier(Combined))
        /\ check.parser = ParserObject(Some(RuffLikePattern), None)
              => checkDiagnostics = Reported(ParseRuff(Combined))
        /\ check.parser = ParserObject(Some(LineOnlyPattern), Some("warning"))
              => checkDiagnostics = Reported(NumberedLines(Split(Combined, "\n")))
        /\ check.parser = ParserObject(Some(NoGroupPattern), None)
              => checkDiagnostics = << FallbackDiagnostic(Combined, check) >>
        /\ check.parser = ParserObject(Some(InvalidPattern), None)
              => checkDiagnostics = Reported(ParseGeneric(Combined))

\* a check whose pattern does not compile reported the failure through the
\* generic parser: one diagnostic holding the first five lines
C20_Witness ==
    /\ ParserCalled
    /\ check.parser = ParserObject(Some(InvalidPattern), None)
    /\ NewlinesIn(Combined) >= 5
    /\ Len(checkDiagnostics) = 1
    /\ NewlinesIn(checkDiagnostics[1].message) = GenericLines - 1

\* =====================================================================
\* Properties of the git-operation rule and of the final report (checked
\* under SpecRun)
\* =====================================================================
\* the configuration run() loaded, None when the file is missing or does
\* not parse
Loaded == loadConfig(world, config).config

\* the run got as far as asking whether a git operation is in progress
GitDecisionReached ==
    /\ Exited
    /\ filePath # <<>>
    /\ world.fileExists
    /\ world.projectRoot # None
    /\ (Loaded # None \/ isConfigFile(filePath))

Operation == detectGitOperation(world)

\* the loaded configuration has a boolean for the operation in progress
Configured ==
    /\ Loaded # None
    /\ Loaded[1].git # None
    /\ Operation \in DOMAIN Loaded[1].git[1]

\* the run ended with the pass that reports the suspended checks, and
\* neither a check nor the self-check ran
SkippedForGit ==
    /\ hostOutput = << PassOutput(<<"skipped (git ", Operation, " in progress)">>) >>
    /\ checkResult = NoResult
    /\ spawned = <<>>
    /\ results = <<>>
    /\ diagnostics = <<>>

\* the run went on to resolve and run the checks of the file
ChecksRan == checkResult # NoResult /\ Len(results) >= Len(Checks)

\* C24: without a "git" entry for the operation in progress, a run during
\* a rebase, an am or a bisect passes with "skipped (git <op> in progress)"
\* and runs no check, and a run during a merge, a cherry-pick, a revert or
\* no operation runs the checks; when the configuration holds a boolean for
\* the operation, the decision is that boolean's and not the default's.
C24_DefaultSkipOperations ==
    GitDecisionReached =>
        /\ (~Configured /\ Operation \in {"rebase", "am", "bisect"}) => SkippedForGit
        /\ (~Configured /\ Operation \in {"merge", "cherryPick", "revert", "none"})
              => ChecksRan
        /\ (Configured /\ Operation \in {"rebase", "am", "bisect"}
                       /\ ~Loaded[1].git[1][Operation]) => ChecksRan
        /\ (Configured /\ Operation \in {"merge", "cherryPick", "revert"}
                       /\ Loaded[1].git[1][Operation]) => SkippedForGit

\* a run during a rebase that the configuration exempts from the default,
\* in which a check was spawned
C24_Witness ==
    /\ GitDecisionReached
    /\ Operation = "rebase"
    /\ Configured
    /\ ~Loaded[1].git[1].rebase
    /\ spawned # <<>>
    /\ Len(results) = 2

\* C25: in the "git" map true stands for checks enabled and false for
\* checks disabled: with true for the operation in progress the checks
\* run, with false they are skipped.
C25_TrueEnablesChecks ==
    (GitDecisionReached /\ Operation # "none" /\ Configured)
        => IF Loaded[1].git[1][Operation] THEN ChecksRan ELSE SkippedForGit

\* the checks that ran; the schema entry of the self-check follows them
SelfCheckRan == isConfigFile(filePath)

SelfCheckFailed == SelfCheckRan /\ ~validateConfigFile(world).valid

\* check k returned at least one diagnostic
CheckReported(k) ==
    \E j \in 1..Len(diagnostics) : diagnostics[j].source = Checks[k].name

\* C28: a run that reaches the check phase ends with a block exactly when
\* some executed check returned diagnostics or the self-check of the
\* configuration failed, and with a pass otherwise; the reason of the block
\* lists every collected diagnostic in the order of collection, and the
\* status line has one pass/fail entry per executed check in declaration
\* order.
C28_BlockIffDiagnostics ==
    (Exited /\ checkResult # NoResult) =>
        /\ Blocked <=> ((\E k \in 1..Len(Checks) : CheckReported(k)) \/ SelfCheckFailed)
        /\ ~Blocked => DOMAIN LastOutput = {"systemMessage"}
        /\ Len(hostOutput) = 1
        /\ Blocked =>
              /\ Len(LastOutput.reason.lines) = Len(diagnostics)
              /\ \A j \in 1..Len(diagnostics) :
                    LastOutput.reason.lines[j] = formatDiagnostic(diagnostics[j])
              /\ Len(results) = Len(Checks) + (IF SelfCheckRan THEN 1 ELSE 0)
              /\ \A k \in 1..Len(Checks) :
                    /\ results[k].name = Checks[k].name
                    /\ results[k].passed <=> ~CheckReported(k)
              /\ LastOutput.systemMessage = <<"[checkmate] ">> \o StatusLine(results)

\* a blocked run of two checks of which only the first reported, and it
\* reported two diagnostics
C28_Witness ==
    /\ Blocked
    /\ checkResult # NoResult
    /\ Len(Checks) = 2
    /\ ~results[1].passed
    /\ results[2].passed
    /\ Len(diagnostics) = 2
    /\ Len(LastOutput.reason.lines) = 2

\* C29: the git-operation rule is decided before any check and before the
\* self-check: during a suspended operation the run passes without running
\* a check and without validating the configuration, even when the edited
\* file is the configuration file and its content is invalid.
C29_SkipPrecedesSelfCheck ==
    (GitDecisionReached /\ isConfigFile(filePath)
        /\ world.configFile \in {"malformed", "invalid"}
        /\ Operation \in {"am", "bisect"})
        => /\ ~Blocked
           /\ SkippedForGit

\* the configuration file was edited into a schema violation while a
\* bisect was in progress, and the run passed
C29_Witness ==
    /\ GitDecisionReached
    /\ filePath = ConfigFile
    /\ world.configFile = "invalid"
    /\ Operation = "bisect"
    /\ ~Blocked
    /\ SkippedForGit

\* =====================================================================
\* Properties of globstar patterns (checked under SpecGlob)
\* =====================================================================
RelativePath == Relative(Root, filePath)

HasSeparator(path) == \E i \in 1..Len(path) : path[i] = "/"

\* C30: a pattern that starts with "**/" matches only relative paths that
\* contain a slash, so a path without a separator is not matched even when
\* it matches the rest of the pattern; and "<dir>/**" does not match the
\* path "<dir>" itself.
C30_GlobstarNeedsSeparator ==
    pc = "matched" =>
        /\ (StartsWith(excludePattern, <<"*", "*", "/">>) /\ ~HasSeparator(RelativePath))
              => ~excluded
        /\ (EndsWith(excludePattern, <<"/", "*", "*">>)
              /\ excludePattern = RelativePath \o <<"/", "*", "*">>)
              => ~excluded

\* the file a at the root of the project was tested against **/a
C30_Witness ==
    /\ pc = "matched"
    /\ excludePattern = <<"*", "*", "/", "a">>
    /\ RelativePath = <<"a">>
    /\ ~excluded

\* =====================================================================
\* Properties of the ty parser (checked under SpecCheck)
\* =====================================================================
TyOutput == Split(Combined, "\n")

IsTyHeader(j) ==
    \E severity \in {"error", "warning"}, i \in 1..Len(Digits) :
        TyOutput[j] = TyHeader(severity, i)

IsTyLocation(j) == \E i \in 1..Len(Digits) : TyOutput[j] = TyLocation(i)

\* the last header above line j, 0 when there is none
HeaderAbove(j) ==
    LET hs == {h \in 1..(j - 1) : IsTyHeader(h)}
    IN IF hs = {} THEN 0 ELSE Max(hs)

\* line j is a location, a header stands above it, and no other location
\* lies between that header and line j
ConsumesHeader(j) ==
    /\ IsTyLocation(j)
    /\ HeaderAbove(j) > 0
    /\ \A l \in (HeaderAbove(j) + 1)..(j - 1) : ~IsTyLocation(l)

\* the diagnostics of lines 1..j: one per location that consumes a header,
\* with the position of the location and the rule, message and severity
\* of the header
RECURSIVE TyExpected(_)
TyExpected(j) ==
    IF j = 0 THEN <<>>
    ELSE TyExpected(j - 1) \o
         (IF ConsumesHeader(j)
          THEN << [line |-> j, column |-> 2,
                   message |-> <<"m", Digits[HeaderAbove(j)]>>,
                   rule |-> <<"r", Digits[HeaderAbove(j)]>>,
                   severity |-> TyOutput[HeaderAbove(j)][1]] >>
          ELSE <<>>)

\* the number of diagnostics the parser returned (the fallback diagnostic
\* of an output without any has no line)
TyDiagnosticCount ==
    IF \E k \in 1..Len(checkDiagnostics) : "line" \in DOMAIN checkDiagnostics[k]
    THEN Len(checkDiagnostics) ELSE 0

\* C27: the ty parser reports a diagnostic only at a location line that
\* follows a header not yet consumed; the diagnostic has the severity, rule
\* and message of the most recent header, which is then no longer pending;
\* a location without a pending header reports nothing and of two headers
\* in a row the later one counts; so there are never more diagnostics than
\* headers, nor than location lines.
C27_TyPairsHeaderWithLocation ==
    (ParserCalled /\ check.parser = ParserNamed("ty")) =>
        /\ checkDiagnostics = Reported(TyExpected(Len(TyOutput)))
        /\ TyDiagnosticCount <= Cardinality({j \in 1..Len(TyOutput) : IsTyHeader(j)})
        /\ TyDiagnosticCount <= Cardinality({j \in 1..Len(TyOutput) : IsTyLocation(j)})

\* two headers in a row and then two locations: one diagnostic, of the
\* second header and the first location
C27_Witness ==
    /\ ParserCalled
    /\ check.parser = ParserNamed("ty")
    /\ Len(TyOutput) = 4
    /\ IsTyHeader(1) /\ IsTyHeader(2) /\ IsTyLocation(3) /\ IsTyLocation(4)
    /\ Len(checkDiagnostics) = 1
    /\ checkDiagnostics[1].rule = <<"r", "2">>
    /\ checkDiagnostics[1].line = 3

\* =====================================================================
\* Properties of the validator (checked under SpecValidate)
\* =====================================================================
Returned == pc = "validated"

Errors == validation[1].errors

\* the document is an object whose environments entry is a list
HasEnvironments ==
    /\ config.t = "obj"
    /\ "environments" \in DOMAIN config.v
    /\ config.v.environments.t = "arr"

Environments == config.v.environments.v

IndexText(k) == <<"0", "1", "2", "3">>[k]

\* environment k is an object whose name is the text name
Named(k, name) ==
    /\ Environments[k].t = "obj"
    /\ "name" \in DOMAIN Environments[k].v
    /\ Environments[k].v.name = [t |-> "str", v |-> name]

RepeatsEarlierName(k) ==
    \E name \in {<<>>, <<"A">>, <<"B">>} :
        Named(k, name) /\ \E j \in 1..(k - 1) : Named(j, name)

IsDuplicateNameError(e, k) ==
    /\ e.path = <<"environments", "[", IndexText(k), "]", ".name">>
    /\ StartsWith(e.message, <<"duplicate name ">>)

\* C21: validateConfig reports at least one error for an empty environments
\* list and a duplicate-name error for every environment whose name repeats
\* that of an earlier one; a non-empty list in which no name repeats gets
\* no duplicate-name error.
C21_EmptyAndDuplicateRejected ==
    (Returned /\ HasEnvironments) =>
        /\ Environments = <<>> => Len(Errors) >= 1
        /\ \A k \in 1..Len(Environments) :
              RepeatsEarlierName(k)
                  <=> \E n \in 1..Len(Errors) : IsDuplicateNameError(Errors[n], k)

\* C22: whatever parsed JSON value it is given, with environments, checks
\* or task rules that are null, not objects or lack fields, validateConfig
\* returns its errors, each made of a path and a text, and never throws.
C22_NeverThrows ==
    /\ pc # "threw"
    /\ Returned => \A n \in 1..Len(Errors) :
                       Errors[n].path # <<>> /\ Errors[n].message # <<>>

\* the rendered names of the environments differ, so that every check has
\* a path of its own
DistinctEnvironments ==
    \A j, k \in 1..Len(Environments) :
        (j < k /\ Environments[j].t = "obj" /\ Environments[k].t = "obj")
            => /\ "name" \in DOMAIN Environments[j].v
               /\ "name" \in DOMAIN Environments[k].v
               /\ Environments[j].v.name.t = "str"
               /\ Environments[k].v.name.t = "str"
               /\ Environments[j].v.name.v # <<>>
               /\ Environments[j].v.name.v # Environments[k].v.name.v

\* the first check of environment k, when the environment is an object
\* named by a text and lists checks under one key
HasCheck(k) ==
    /\ Environments[k].t = "obj"
    /\ {"name", "checks"} \subseteq DOMAIN Environments[k].v
    /\ Environments[k].v.name.t = "str"
    /\ Environments[k].v.name.v # <<>>
    /\ Environments[k].v.checks.t = "map"
    /\ Environments[k].v.checks.v[1].value.t = "arr"
    /\ Environments[k].v.checks.v[1].value.v[1].t = "obj"

CheckOf(k) == Environments[k].v.checks.v[1].value.v[1].v

CheckPath(k) ==
    <<"environments", "[">> \o Environments[k].v.name.v \o <<"]", ".checks", "[">>
    \o Environments[k].v.checks.v[1].key \o <<"]", "[", "0", "]">>

ErrorsAt(path) == {n \in 1..Len(Errors) : Errors[n].path = path}

\* args is a list none of whose strings holds the placeholder
LacksFilePlaceholder(c) ==
    /\ "args" \in DOMAIN c
    /\ c.args.t = "arr"
    /\ \A j \in 1..Len(c.args.v) :
          c.args.v[j].t = "str" => ~Includes(c.args.v[j].v, <<"$FILE">>)

ValidParserNames ==
    <<"ruff", ", ", "ty", ", ", "eslint", ", ", "tsc", ", ", "prettier", ", ", "biome",
      ", ", "generic", ", ", "jsonl", ", ", "gcc">>

UnknownParserName(c) ==
    /\ "parser" \in DOMAIN c
    /\ c.parser.t = "str"
    /\ \A n \in 1..Len(ValidParserNames) : c.parser.v # <<ValidParserNames[n]>>

\* the task rules of the document, when it lists any
HasTasks ==
    /\ config.t = "obj"
    /\ "tasks" \in DOMAIN config.v
    /\ config.v.tasks.t = "arr"

TaskRules == config.v.tasks.v

\* rule i is an object whose action is a text and whose message, if any,
\* is a text
PlainRule(i) ==
    /\ TaskRules[i].t = "obj"
    /\ "action" \in DOMAIN TaskRules[i].v
    /\ TaskRules[i].v.action.t = "str"
    /\ "message" \in DOMAIN TaskRules[i].v => TaskRules[i].v.message.t = "str"

NoMessage(r) == "message" \notin DOMAIN r \/ r.message.v = <<>>

\* C23: a check whose args hold no "$FILE" gets exactly one error, at the
\* path of its args; a parser given by a name outside the predefined ones
\* gets exactly one error, which lists the valid names; a task rule gets an
\* error for its message exactly when its action is message or review and
\* it has no message, or its action is skip and a message is present.
C23_FieldRules ==
    Returned =>
        /\ (HasEnvironments /\ DistinctEnvironments) =>
              \A k \in 1..Len(Environments) :
                  HasCheck(k) =>
                      /\ LacksFilePlaceholder(CheckOf(k)) =>
                            /\ Cardinality(ErrorsAt(CheckPath(k) \o <<".args">>)) = 1
                            /\ \A n \in ErrorsAt(CheckPath(k) \o <<".args">>) :
                                  Includes(Errors[n].message, <<"$FILE">>)
                      /\ UnknownParserName(CheckOf(k)) =>
                            /\ Cardinality(ErrorsAt(CheckPath(k) \o <<".parser">>)) = 1
                            /\ \A n \in ErrorsAt(CheckPath(k) \o <<".parser">>) :
                                  Includes(Errors[n].message, ValidParserNames)
        /\ HasTasks =>
              \A i \in 1..Len(TaskRules) :
                  PlainRule(i) =>
                      (ErrorsAt(<<"tasks", "[", IndexText(i), "]", ".message">>) # {}
                          <=> \/ /\ TaskRules[i].v.action.v \in {<<"message">>, <<"review">>}
                                 /\ NoMessage(TaskRules[i].v)
                              \/ /\ TaskRules[i].v.action.v = <<"skip">>
                                 /\ "message" \in DOMAIN TaskRules[i].v)

\* the only flaw of the document is a check whose args do not hold the
\* placeholder, and the only error is the one for these args
C23_Witness ==
    /\ Returned
    /\ HasEnvironments
    /\ Len(Environments) = 2
    /\ DistinctEnvironments
    /\ HasCheck(2)
    /\ LacksFilePlaceholder(CheckOf(2))
    /\ CheckOf(2).args.v # <<>>
    /\ Len(Errors) = 1
    /\ Errors[1].path = CheckPath(2) \o <<".args">>

\* =====================================================================
\* Properties of the pre-tool hook (checked under SpecPreTool)
\* =====================================================================
Denied == Exited /\ "hookSpecificOutput" \in DOMAIN LastOutput

Passed == Exited /\ DOMAIN LastOutput = {"systemMessage"}

\* the transcript line that records the call: the first one that holds the
\* tool use id, 0 when there is none
CallRecord ==
    LET hits == {i \in 1..Len(world.transcript[1]) : world.transcript[1][i].mentions}
    IN IF hits = {} THEN 0 ELSE Min(hits)

\* the hook is told the call and its transcript, and the transcript exists
CanReadTranscript ==
    /\ input.tool_use_id # None
    /\ input.transcript_path # None
    /\ world.transcript # None

\* the origin of the call cannot be determined: the transcript cannot be
\* read, or the line that records the call is not valid JSON
OriginUnknown ==
    \/ ~CanReadTranscript
    \/ CallRecord > 0 /\ ~world.transcript[1][CallRecord].json

\* the record of the call names a parent Task
SubagentContext ==
    /\ CanReadTranscript
    /\ CallRecord > 0
    /\ world.transcript[1][CallRecord].json
    /\ world.transcript[1][CallRecord].parent

\* the call has no parent Task: its record names none, or no line of the
\* transcript holds the call
MainConversation ==
    /\ CanReadTranscript
    /\ CallRecord = 0 \/ /\ world.transcript[1][CallRecord].json
                         /\ ~world.transcript[1][CallRecord].parent

\* some environment of the loaded configuration covers the file, does not
\* exclude it and maps its extension to an agent
AgentMapped ==
    /\ filePath # <<>>
    /\ loadConfig(world, config).config # None
    /\ \E i \in 1..Len(config.environments[1]) :
          LET env == config.environments[1][i]
          IN /\ fileMatchesPaths(RelativePath, env.paths[1])
             /\ env.exclude # None
                   => ~matchesExcludePattern(RelativePath, env.exclude[1][1])
             /\ env.agents # None
             /\ \E j \in 1..Len(env.agents[1]) :
                   /\ env.agents[1][j].agent # <<>>
                   /\ Includes(env.agents[1][j].key, Extname(filePath))

\* C26: the pre-tool hook denies only an Edit or Write that comes from the
\* main conversation, for a file whose extension has an agent mapping in an
\* applicable environment, while no git operation is in progress; a call in
\* a subagent context, during a git operation, of undeterminable origin or
\* of another tool always passes.
C26_DeniesOnlyMainConversation ==
    /\ Denied =>
          /\ input.tool_name \in {"Edit", "Write"}
          /\ MainConversation
          /\ AgentMapped
          /\ Operation = "none"
    /\ (Exited /\ (SubagentContext \/ OriginUnknown \/ Operation # "none"
                   \/ input.tool_name \notin {"Edit", "Write"}))
          => Passed

====
